---- MODULE Spec2Model ----
(***************************************************************************)
(* Model of the Motion Q&A pipeline (app/services/ai_service.py and the    *)
(* routes that call it): the regex equation solver, the keyword and        *)
(* embedding classifiers, hint and solution generation, and the HTTP       *)
(* handlers with the stored questions, hints and solutions.                *)
(*                                                                         *)
(* Strings.  A Python str is a sequence of atoms.  Everything that is      *)
(* read (request texts) or formatted (numbers) is held character by        *)
(* character; the literal fragments of the f-strings and templates are     *)
(* kept whole as one atom each, with the fragment "x = " always cut out   *)
(* as an atom of its own.  None is the empty tuple and a value v that may  *)
(* be None is held as <<v>>.                                               *)
(***************************************************************************)
EXTENDS Integers, Sequences, FiniteSets, TLC

VARIABLES
    use_transformers,   \* AIService.use_transformers, one per AIService instance
    attrs,              \* the model attributes __init__ set on each AIService
    questions,          \* table question: id -> row, for the stored ids
    hints,              \* table hint: set of rows
    solutions,          \* table solution: set of rows
    input,              \* what the text of the current call was built from
    text,               \* the text the current call works on
    req,                \* the call being answered: operation, AIService, arguments
    resp,               \* what it returned: [status, body, detail]
    calls,              \* what it invoked, in order
    analysis,           \* history: what analyze_question returned in the last call
    modelLog,           \* history: what the models answered during the last call
    solverLog,          \* history: the results _solve_basic_equation gave for text
    ncalls,             \* history: how many calls were made
    inflight,           \* the create_solution requests in progress: slot -> request
    boot                \* history: the AIService() calls of the process and what they loaded

vars == <<use_transformers, attrs, questions, hints, solutions, input, text, req, resp,
          calls, analysis, modelLog, solverLog, ncalls, inflight, boot>>

service == <<use_transformers, attrs>>

database == <<questions, hints, solutions>>

process == <<inflight, boot>>

(***************************************************************************)
(* Bounds of the model.                                                    *)
(***************************************************************************)
MaxNum == 4

MaxCalls == 2

MaxWords == 2

MaxHints == 4

MaxLevel == 4

MaxQuestions == 1

(***************************************************************************)
(* Characters.                                                             *)
(***************************************************************************)
DigitChars == <<"0", "1", "2", "3", "4", "5", "6", "7", "8", "9">>

Digits == {DigitChars[i] : i \in 1..10}

Spaces == {" ", "\t", "\n"}

UpperChars == <<"A", "B", "C", "D", "E", "F", "G", "H", "I", "J", "K", "L", "M",
                "N", "O", "P", "Q", "R", "S", "T", "U", "V", "W", "X", "Y", "Z">>

LowerChars == <<"a", "b", "c", "d", "e", "f", "g", "h", "i", "j", "k", "l", "m",
                "n", "o", "p", "q", "r", "s", "t", "u", "v", "w", "x", "y", "z">>

UpperSet == {UpperChars[i] : i \in 1..26}

LowerSet == {LowerChars[i] : i \in 1..26}

LowerMap == [c \in UpperSet |-> LowerChars[CHOOSE i \in 1..26 : UpperChars[i] = c]]

UpperMap == [c \in LowerSet |-> UpperChars[CHOOSE i \in 1..26 : LowerChars[i] = c]]

\* str.lower() on one character
LowerChar(c) == IF c \in UpperSet THEN LowerMap[c] ELSE c

\* str.upper() on one character
UpperChar(c) == IF c \in LowerSet THEN UpperMap[c] ELSE c

\* str.lower()
Lower(s) == [i \in 1..Len(s) |-> LowerChar(s[i])]

None == <<>>

Some(v) == <<v>>

(***************************************************************************)
(* int(str) and str(int) / repr(float), as the f-strings of the solver use *)
(* them.                                                                   *)
(***************************************************************************)
DigitVal(c) == (CHOOSE i \in 1..10 : DigitChars[i] = c) - 1

RECURSIVE ParseInt(_)
\* int(m.group(k)) on a run of decimal digits: leading zeros are dropped
ParseInt(ds) ==
    IF ds = <<>> THEN 0
    ELSE 10 * ParseInt(SubSeq(ds, 1, Len(ds) - 1)) + DigitVal(ds[Len(ds)])

RECURSIVE StrNat(_)
StrNat(n) ==
    IF n < 10 THEN <<DigitChars[n + 1]>>
    ELSE StrNat(n \div 10) \o <<DigitChars[(n % 10) + 1]>>

\* f"{n}" for an int
StrInt(n) == IF n < 0 THEN <<"-">> \o StrNat(0 - n) ELSE StrNat(n)

RECURSIVE StripTwoFive(_)
\* d with every factor 2 and 5 removed: 1 iff 1/d has a finite decimal expansion
StripTwoFive(d) ==
    IF d % 2 = 0 THEN StripTwoFive(d \div 2)
    ELSE IF d % 5 = 0 THEN StripTwoFive(d \div 5)
    ELSE d

RECURSIVE FracDigits(_, _)
\* the digits of r/d after the decimal point, 0 < r < d, finite expansion
FracDigits(r, d) ==
    IF r = 0 THEN <<>>
    ELSE <<DigitChars[((10 * r) \div d) + 1]>> \o FracDigits((10 * r) % d, d)

\* f"{n / d}" for ints n >= 0, d > 0: Python's true division gives a float, whose
\* repr always has a fractional part ("4.0").  A quotient with no finite decimal
\* expansion is held unexpanded, as the atoms repr( n / d ).
StrFloatDiv(n, d) ==
    IF n % d = 0 THEN StrNat(n \div d) \o <<".", "0">>
    ELSE IF StripTwoFive(d) = 1
         THEN StrNat(n \div d) \o <<".">> \o FracDigits(n % d, d)
         ELSE <<"repr(">> \o StrNat(n) \o <<"/">> \o StrNat(d) \o <<")">>

(***************************************************************************)
(* re.search for the patterns of the solver.  A pattern is a sequence of   *)
(* elements, each a character class with a quantifier and the number of    *)
(* the group it captures (0: none).  In every pattern below two            *)
(* neighbouring elements have disjoint classes, so the greedy run is the   *)
(* only run the backtracking matcher can end on.                           *)
(***************************************************************************)
Ch(c) == [q |-> "one", cls |-> {c}, grp |-> 0]

OneOf(cs) == [q |-> "one", cls |-> cs, grp |-> 0]

Opt(c) == [q |-> "opt", cls |-> {c}, grp |-> 0]

WsStar == [q |-> "star", cls |-> Spaces, grp |-> 0]

WsPlus == [q |-> "plus", cls |-> Spaces, grp |-> 0]

DigitsGroup(g) == [q |-> "plus", cls |-> Digits, grp |-> g]

\* c is in the class; under re.IGNORECASE, in either letter case
CharIn(c, cls, ic) ==
    c \in cls \/ (ic /\ (LowerChar(c) \in cls \/ UpperChar(c) \in cls))

RECURSIVE Run(_, _, _, _)
\* the length of the longest run of characters of cls in s from position pos
Run(cls, s, pos, ic) ==
    IF pos > Len(s) \/ ~CharIn(s[pos], cls, ic) THEN 0
    ELSE 1 + Run(cls, s, pos + 1, ic)

NoMatch == [ok |-> FALSE, groups |-> <<<<>>, <<>>>>]

RECURSIVE MatchFrom(_, _, _, _, _, _)
\* the elements k.. of pat matched against s from position pos
MatchFrom(pat, k, s, pos, ic, groups) ==
    IF k > Len(pat) THEN [ok |-> TRUE, groups |-> groups]
    ELSE LET e == pat[k]
             n == Run(e.cls, s, pos, ic)
             take == CASE e.q = "one" -> 1
                       [] e.q = "opt" -> IF n >= 1 THEN 1 ELSE 0
                       [] OTHER -> n
             g == IF e.grp = 0 THEN groups
                  ELSE [groups EXCEPT ![e.grp] = SubSeq(s, pos, pos + take - 1)]
         IN  IF e.q \in {"one", "plus"} /\ n = 0 THEN NoMatch
             ELSE MatchFrom(pat, k + 1, s, pos + take, ic, g)

RECURSIVE SearchFrom(_, _, _, _)
SearchFrom(pat, s, start, ic) ==
    IF start > Len(s) + 1 THEN NoMatch
    ELSE LET m == MatchFrom(pat, 1, s, start, ic, <<<<>>, <<>>>>)
         IN  IF m.ok THEN m ELSE SearchFrom(pat, s, start + 1, ic)

\* re.search(pattern, string[, re.IGNORECASE]): the leftmost match
re_search(pat, s, ic) == SearchFrom(pat, s, 1, ic)

\* r'[Ss]olve\s+for\s+x\s*:\s*x\s*\+\s*(\d+)\s*=\s*(\d+)'
solve_pattern ==
    <<OneOf({"S", "s"}), Ch("o"), Ch("l"), Ch("v"), Ch("e"), WsPlus,
      Ch("f"), Ch("o"), Ch("r"), WsPlus, Ch("x"), WsStar, Ch(":"), WsStar,
      Ch("x"), WsStar, Ch("+"), WsStar, DigitsGroup(1), WsStar, Ch("="), WsStar,
      DigitsGroup(2)>>

\* r'x\s*\+\s*(\d+)\s*=\s*(\d+)'
simple_addition ==
    <<Ch("x"), WsStar, Ch("+"), WsStar, DigitsGroup(1), WsStar, Ch("="), WsStar,
      DigitsGroup(2)>>

\* r'x\s*-\s*(\d+)\s*=\s*(\d+)'
subtraction_pattern ==
    <<Ch("x"), WsStar, Ch("-"), WsStar, DigitsGroup(1), WsStar, Ch("="), WsStar,
      DigitsGroup(2)>>

\* r'(\d+)\s*\*?\s*x\s*=\s*(\d+)'
multiplication_pattern ==
    <<DigitsGroup(1), WsStar, Opt("*"), WsStar, Ch("x"), WsStar, Ch("="), WsStar,
      DigitsGroup(2)>>

(***************************************************************************)
(* AIService._solve_basic_equation                                         *)
(***************************************************************************)
StepLine(i, step) == <<"Step ">> \o StrInt(i) \o <<": ">> \o step

RECURSIVE JoinFrom(_, _)
JoinFrom(steps, i) ==
    IF i > Len(steps) THEN <<>>
    ELSE (IF i > 1 THEN <<"\n">> ELSE <<>>) \o StepLine(i, steps[i])
         \o JoinFrom(steps, i + 1)

\* "\n".join([f"Step {i+1}: {step}" for i, step in enumerate(steps)])
JoinSteps(steps) == JoinFrom(steps, 1)

\* the result built for a match of solve_pattern
SolveForXResult(constant, result) ==
    LET x_value == result - constant
        steps ==
          << <<"Start with the original equation: x + ">> \o StrInt(constant)
                 \o <<" = ">> \o StrInt(result),
             <<"To isolate x, subtract ">> \o StrInt(constant)
                 \o <<" from both sides of the equation">>,
             <<"x + ">> \o StrInt(constant) \o <<" - ">> \o StrInt(constant)
                 \o <<" = ">> \o StrInt(result) \o <<" - ">> \o StrInt(constant),
             <<"x = ">> \o StrInt(result) \o <<" - ">> \o StrInt(constant)
                 \o <<" = ">> \o StrInt(x_value),
             <<"Therefore, ", "x = ">> \o StrInt(x_value) >>
    IN  [content |-> <<"The solution to the equation x + ">> \o StrInt(constant)
                        \o <<" = ">> \o StrInt(result) \o <<" is ", "x = ">>
                        \o StrInt(x_value) \o <<".">>,
         steps |-> Some(JoinSteps(steps))]

\* the result built for a match of simple_addition
AdditionResult(constant, result) ==
    LET x_value == result - constant
        steps ==
          << <<"Start with the equation: x + ">> \o StrInt(constant)
                 \o <<" = ">> \o StrInt(result),
             <<"Subtract ">> \o StrInt(constant) \o <<" from both sides: ", "x = ">>
                 \o StrInt(result) \o <<" - ">> \o StrInt(constant),
             <<"Solve for x: ", "x = ">> \o StrInt(x_value) >>
    IN  [content |-> <<"The solution is ", "x = ">> \o StrInt(x_value) \o <<".">>,
         steps |-> Some(JoinSteps(steps))]

\* the subtraction pattern answered with the difference, as for an addition
SubtractionResultAsAddition(constant, result) == AdditionResult(constant, result)

\* the result built for a match of subtraction_pattern
SubtractionResult(constant, result) ==
    LET x_value == result + constant
        steps ==
          << <<"Start with the equation: x - ">> \o StrInt(constant)
                 \o <<" = ">> \o StrInt(result),
             <<"Add ">> \o StrInt(constant) \o <<" to both sides: ", "x = ">>
                 \o StrInt(result) \o <<" + ">> \o StrInt(constant),
             <<"Solve for x: ", "x = ">> \o StrInt(x_value) >>
    IN  [content |-> <<"The solution is ", "x = ">> \o StrInt(x_value) \o <<".">>,
         steps |-> Some(JoinSteps(steps))]

\* the result built for a match of multiplication_pattern, constant # 0:
\* x_value = result / constant is a float
MultiplicationResult(constant, result) ==
    LET x_value == StrFloatDiv(result, constant)
        steps ==
          << <<"Start with the equation: ">> \o StrInt(constant) \o <<"x = ">>
                 \o StrInt(result),
             <<"Divide both sides by ">> \o StrInt(constant) \o <<": ", "x = ">>
                 \o StrInt(result) \o <<" / ">> \o StrInt(constant),
             <<"Solve for x: ", "x = ">> \o x_value >>
    IN  [content |-> <<"The solution is ", "x = ">> \o x_value \o <<".">>,
         steps |-> Some(JoinSteps(steps))]

\* A run that searches the additive patterns and the multiplication before the
\* "solve for x" phrasing.
SolveRunAdditionFirst(question_content) ==
    LET m1 == re_search(solve_pattern, question_content, TRUE)
        m2 == re_search(simple_addition, question_content, FALSE)
        m3 == re_search(subtraction_pattern, question_content, FALSE)
        m4 == re_search(multiplication_pattern, question_content, FALSE)
        c(m) == ParseInt(m.groups[1])
        r(m) == ParseInt(m.groups[2])
    IN  IF m2.ok
        THEN [consulted |-> <<"simple_addition">>,
              result |-> Some(AdditionResult(c(m2), r(m2)))]
        ELSE IF m3.ok
        THEN [consulted |-> <<"simple_addition", "subtraction_pattern">>,
              result |-> Some(SubtractionResult(c(m3), r(m3)))]
        ELSE IF m4.ok
        THEN [consulted |-> <<"simple_addition", "subtraction_pattern",
                              "multiplication_pattern">>,
              result |-> IF c(m4) # 0 THEN Some(MultiplicationResult(c(m4), r(m4)))
                         ELSE None]
        ELSE [consulted |-> <<"simple_addition", "subtraction_pattern",
                              "multiplication_pattern", "solve_pattern">>,
              result |-> IF m1.ok THEN Some(SolveForXResult(c(m1), r(m1))) ELSE None]

\* One run of the solver: the patterns it searched, in order, and what it
\* returned.  result / constant with constant = 0 raises ZeroDivisionError, which
\* the except clause turns into None.
SolveRun(question_content) ==
    LET m1 == re_search(solve_pattern, question_content, TRUE)
        m2 == re_search(simple_addition, question_content, FALSE)
        m3 == re_search(subtraction_pattern, question_content, FALSE)
        m4 == re_search(multiplication_pattern, question_content, FALSE)
        c(m) == ParseInt(m.groups[1])
        r(m) == ParseInt(m.groups[2])
    IN  IF m1.ok
        THEN [consulted |-> <<"solve_pattern">>,
              result |-> Some(SolveForXResult(c(m1), r(m1)))]
        ELSE IF m2.ok
        THEN [consulted |-> <<"solve_pattern", "simple_addition">>,
              result |-> Some(AdditionResult(c(m2), r(m2)))]
        ELSE IF m3.ok
        THEN [consulted |-> <<"solve_pattern", "simple_addition",
                              "subtraction_pattern">>,
              result |-> Some(SubtractionResult(c(m3), r(m3)))]
        ELSE [consulted |-> <<"solve_pattern", "simple_addition",
                              "subtraction_pattern", "multiplication_pattern">>,
              result |-> IF m4.ok /\ c(m4) # 0
                         THEN Some(MultiplicationResult(c(m4), r(m4)))
                         ELSE None]

\* a solver that answers a match of multiplication_pattern with constant 0 by
\* x = inf instead of raising
SolveDividingByZero(question_content) ==
    LET run == SolveRun(question_content)
    IN  IF run.consulted[Len(run.consulted)] = "multiplication_pattern"
           /\ re_search(multiplication_pattern, question_content, FALSE).ok
           /\ run.result = None
        THEN Some([content |-> <<"The solution is ", "x = ", "inf", ".">>,
                   steps |-> Some(<<"Step 1: ", "x = ", "inf">>)])
        ELSE run.result

solve_basic_equation(question_content) == SolveRun(question_content).result

(***************************************************************************)
(* Text helpers of the classifier.                                         *)
(***************************************************************************)
\* sub in s, for a non-empty sub
Contains(s, sub) ==
    \E i \in 1..(Len(s) - Len(sub) + 1) : SubSeq(s, i, i + Len(sub) - 1) = sub

RECURSIVE RunNonSpace(_, _)
RunNonSpace(s, pos) ==
    IF pos > Len(s) \/ s[pos] \in Spaces THEN 0 ELSE 1 + RunNonSpace(s, pos + 1)

RECURSIVE SplitFrom(_, _)
SplitFrom(s, pos) ==
    LET start == pos + Run(Spaces, s, pos, FALSE)
        n == RunNonSpace(s, start)
    IN  IF start > Len(s) THEN <<>>
        ELSE <<SubSeq(s, start, start + n - 1)>> \o SplitFrom(s, start + n)

\* str.split(): the words between runs of whitespace
Split(s) == SplitFrom(s, 1)

SentenceEnd == {".", "!", "?"}

RECURSIVE SentFrom(_, _)
\* re.split(r'(?<=[.!?])\s+', text) from the piece starting at start: the piece
\* ends before the first whitespace that follows a sentence end
SentFrom(s, start) ==
    LET ends == {p \in start..Len(s) : s[p] \in Spaces /\ p > 1 /\ s[p - 1] \in SentenceEnd}
        pos == CHOOSE p \in ends : \A q \in ends : p <= q
        n == Run(Spaces, s, pos, FALSE)
    IN  IF ends = {} THEN <<SubSeq(s, start, Len(s))>>
        ELSE <<SubSeq(s, start, pos - 1)>> \o SentFrom(s, pos + n)

\* custom_sent_tokenize, for texts without the protected forms (U.S., Mr., 3.14),
\* which no text of this model holds: the pieces that are not blank
custom_sent_tokenize(s) ==
    IF s = <<>> THEN <<>>
    ELSE SelectSeq(SentFrom(s, 1), LAMBDA p : \E i \in 1..Len(p) : p[i] \notin Spaces)

Punctuation == {".", ",", ";", ":", "!", "?", "(", ")", "[", "]", "{", "}", "\"", "'"}

\* custom_tokenize: lower-cased, punctuation turned into spaces, split
custom_tokenize(s) ==
    IF s = <<>> THEN <<>>
    ELSE Split([i \in 1..Len(s) |->
                   IF s[i] \in Punctuation THEN " " ELSE LowerChar(s[i])])

\* rationals n/d, d > 0, for the difficulty scores
Rat(n, d) == [n |-> n, d |-> d]

RatLeq(a, b) == a.n * b.d <= b.n * a.d

RatEq(a, b) == a.n * b.d = b.n * a.d

RatMin(a, b) == IF RatLeq(a, b) THEN a ELSE b

RatAdd(a, b) == [n |-> a.n * b.d + b.n * a.d, d |-> a.d * b.d]

Max(a, b) == IF a >= b THEN a ELSE b

Min(a, b) == IF a <= b THEN a ELSE b

\* seq[:n]
Take(seq, n) == SubSeq(seq, 1, Min(n, Len(seq)))

(***************************************************************************)
(* AIService._analyze_question_with_templates: the keyword path            *)
(***************************************************************************)
MathTerms ==
    { <<"s", "o", "l", "v", "e">>,
      <<"e", "q", "u", "a", "t", "i", "o", "n">>,
      <<"c", "a", "l", "c", "u", "l", "a", "t", "e">>,
      <<"v", "a", "l", "u", "e">>,
      <<"f", "i", "n", "d", " ", "x">>,
      <<"f", "i", "n", "d", " ", "t", "h", "e", " ", "v", "a", "l", "u", "e">>,
      <<"=">>,
      <<"e", "q", "u", "a", "l", "s">> }

PhysicsTerms ==
    { <<"f", "o", "r", "c", "e">>,
      <<"e", "n", "e", "r", "g", "y">>,
      <<"m", "o", "t", "i", "o", "n">>,
      <<"v", "e", "l", "o", "c", "i", "t", "y">> }

ChemistryTerms ==
    { <<"e", "l", "e", "m", "e", "n", "t">>,
      <<"c", "o", "m", "p", "o", "u", "n", "d">>,
      <<"m", "o", "l", "e", "c", "u", "l", "e">>,
      <<"r", "e", "a", "c", "t", "i", "o", "n">> }

BiologyTerms ==
    { <<"c", "e", "l", "l">>,
      <<"o", "r", "g", "a", "n", "i", "s", "m">>,
      <<"s", "p", "e", "c", "i", "e", "s">>,
      <<"g", "e", "n", "e">> }

ComputerScienceTerms ==
    { <<"a", "l", "g", "o", "r", "i", "t", "h", "m">>,
      <<"c", "o", "d", "e">>,
      <<"p", "r", "o", "g", "r", "a", "m">>,
      <<"f", "u", "n", "c", "t", "i", "o", "n">> }

\* any(kw in question_lower for kw in terms)
AnyTermIn(question_lower, terms) == \E kw \in terms : Contains(question_lower, kw)

\* a keyword classification whose default is QuestionType.GENERAL_KNOWLEDGE
KeywordTypeGeneralKnowledge(question_lower) ==
    IF AnyTermIn(question_lower, MathTerms) THEN "math"
    ELSE IF AnyTermIn(question_lower, PhysicsTerms) THEN "physics"
    ELSE IF AnyTermIn(question_lower, ChemistryTerms) THEN "chemistry"
    ELSE IF AnyTermIn(question_lower, BiologyTerms) THEN "biology"
    ELSE IF AnyTermIn(question_lower, ComputerScienceTerms) THEN "computer_science"
    ELSE "general_knowledge"

\* an if/elif chain in which the last category with a term wins
KeywordTypeLastMatch(question_lower) ==
    IF AnyTermIn(question_lower, ComputerScienceTerms) THEN "computer_science"
    ELSE IF AnyTermIn(question_lower, BiologyTerms) THEN "biology"
    ELSE IF AnyTermIn(question_lower, ChemistryTerms) THEN "chemistry"
    ELSE IF AnyTermIn(question_lower, PhysicsTerms) THEN "physics"
    ELSE IF AnyTermIn(question_lower, MathTerms) THEN "math"
    ELSE "other"

\* the if/elif chain with the physics terms tested before the math terms
KeywordTypePhysicsFirst(question_lower) ==
    IF AnyTermIn(question_lower, PhysicsTerms) THEN "physics"
    ELSE IF AnyTermIn(question_lower, MathTerms) THEN "math"
    ELSE IF AnyTermIn(question_lower, ChemistryTerms) THEN "chemistry"
    ELSE IF AnyTermIn(question_lower, BiologyTerms) THEN "biology"
    ELSE IF AnyTermIn(question_lower, ComputerScienceTerms) THEN "computer_science"
    ELSE "other"

\* the if / elif chain that sets question_type
KeywordType(question_lower) ==
    IF AnyTermIn(question_lower, MathTerms) THEN "math"
    ELSE IF AnyTermIn(question_lower, PhysicsTerms) THEN "physics"
    ELSE IF AnyTermIn(question_lower, ChemistryTerms) THEN "chemistry"
    ELSE IF AnyTermIn(question_lower, BiologyTerms) THEN "biology"
    ELSE IF AnyTermIn(question_lower, ComputerScienceTerms) THEN "computer_science"
    ELSE "other"

stopwords_set ==
    { <<"t", "h", "e">>, <<"a">>, <<"a", "n">>, <<"a", "n", "d">>, <<"o", "r">>,
      <<"b", "u", "t">>, <<"i", "n">>, <<"o", "n">>, <<"a", "t">>, <<"t", "o">>,
      <<"f", "o", "r">>, <<"w", "i", "t", "h">>, <<"b", "y">>,
      <<"a", "b", "o", "u", "t">> }

\* AIService._extract_keywords
extract_keywords(txt) ==
    Take(SelectSeq(Split(Lower(txt)),
                   LAMBDA word : word \notin stopwords_set /\ Len(word) > 3), 10)

\* a keyword analysis whose difficulty is the word count over 20, without a cap
analyze_question_with_uncapped_difficulty(question_content) ==
    LET question_lower == Lower(question_content)
        words == Split(question_lower)
    IN  [type |-> KeywordType(question_lower),
         difficulty_score |-> Rat(Len(words), 20),
         word_count |-> Len(words),
         sentence_count |-> Len(custom_sent_tokenize(question_content)),
         keywords |-> extract_keywords(question_content),
         relevant_concepts |-> <<>>,
         original_content |-> question_content]

\* AIService._analyze_question_with_templates
analyze_question_with_templates(question_content) ==
    LET question_lower == Lower(question_content)
        words == Split(question_lower)
    IN  [type |-> KeywordType(question_lower),
         difficulty_score |-> RatMin(Rat(Len(words), 20), Rat(3, 1)),
         word_count |-> Len(words),
         sentence_count |-> Len(custom_sent_tokenize(question_content)),
         keywords |-> extract_keywords(question_content),
         relevant_concepts |-> <<>>,
         original_content |-> question_content]

(***************************************************************************)
(* AIService.__init__                                                      *)
(***************************************************************************)
Services == {"direct", "questions"}

\* the attributes __init__ sets inside its try block, in the order it sets them
Artifacts == <<"embedding_model", "generator", "question_type_embeddings", "knowledge_base">>

\* an __init__ whose except block does not reset use_transformers
AIServiceInitKeepingFlag(available, use_ai_models, failAt) ==
    IF use_ai_models /\ (available /\ use_ai_models)
    THEN [use_transformers |-> TRUE,
          attrs |-> {Artifacts[i] : i \in 1..(IF failAt = 0 THEN Len(Artifacts)
                                                          ELSE failAt - 1)}]
    ELSE [use_transformers |-> FALSE, attrs |-> {}]

\* The AIService __init__ leaves behind.  available: TRANSFORMERS_AVAILABLE;
\* use_ai_models: settings.USE_AI_MODELS; failAt: the load step that raises
\* (0: none does).
AIServiceInit(available, use_ai_models, failAt) ==
    IF use_ai_models /\ (available /\ use_ai_models)
    THEN IF failAt = 0
         THEN [use_transformers |-> TRUE,
               attrs |-> {Artifacts[i] : i \in 1..Len(Artifacts)}]
         ELSE [use_transformers |-> FALSE,
               attrs |-> {Artifacts[i] : i \in 1..(failAt - 1)}]
    ELSE [use_transformers |-> FALSE, attrs |-> {}]

\* every AIService a process can hold after construction
ServiceStates ==
    {AIServiceInit(a, u, f) : a \in BOOLEAN, u \in BOOLEAN, f \in 0..Len(Artifacts)}

(***************************************************************************)
(* AIService.analyze_question: the embedding path.  What the models answer *)
(* is an input of the call, emb: the step that raises (fail), the category *)
(* of highest cosine similarity (type), how many knowledge-base concepts   *)
(* pass the threshold (nconcepts) and how the similarity scores order the  *)
(* keyword candidates (reverse).                                           *)
(***************************************************************************)
\* the keys of type_descriptions in _create_question_type_embeddings
EmbeddingTypes == {"math", "physics", "chemistry", "biology", "computer_science", "other"}

\* knowledge-base concepts, most relevant first, as _find_relevant_concepts returns them
ConceptRanking == <<"algebra", "force", "algorithm">>

EmbFailures == {"none", "encode", "similarity", "concepts", "stopwords", "keyword_encode"}

EmbOutcomes ==
    [fail : EmbFailures, type : EmbeddingTypes, nconcepts : 0..Len(ConceptRanking),
     reverse : BOOLEAN]

\* the failures that leave analyze_question's try block as an exception
EmbRaises(emb) == emb.fail \in {"encode", "similarity", "concepts", "stopwords"}

NltkStopwords ==
    { <<"m", "y", "s", "e", "l", "f">>,
      <<"o", "u", "r", "s", "e", "l", "v", "e", "s">>,
      <<"y", "o", "u", "r">>,
      <<"y", "o", "u", "r", "s">>,
      <<"y", "o", "u", "r", "s", "e", "l", "f">>,
      <<"y", "o", "u", "r", "s", "e", "l", "v", "e", "s">>,
      <<"h", "i", "m", "s", "e", "l", "f">>,
      <<"h", "e", "r", "s">>,
      <<"h", "e", "r", "s", "e", "l", "f">>,
      <<"i", "t", "s", "e", "l", "f">>,
      <<"t", "h", "e", "y">>,
      <<"t", "h", "e", "m">>,
      <<"t", "h", "e", "i", "r">>,
      <<"t", "h", "e", "i", "r", "s">>,
      <<"t", "h", "e", "m", "s", "e", "l", "v", "e", "s">>,
      <<"w", "h", "a", "t">>,
      <<"w", "h", "i", "c", "h">>,
      <<"w", "h", "o", "m">>,
      <<"t", "h", "i", "s">>,
      <<"t", "h", "a", "t">>,
      <<"t", "h", "e", "s", "e">>,
      <<"t", "h", "o", "s", "e">>,
      <<"w", "e", "r", "e">>,
      <<"b", "e", "e", "n">>,
      <<"b", "e", "i", "n", "g">>,
      <<"h", "a", "v", "e">>,
      <<"h", "a", "v", "i", "n", "g">>,
      <<"d", "o", "e", "s">>,
      <<"d", "o", "i", "n", "g">>,
      <<"b", "e", "c", "a", "u", "s", "e">>,
      <<"u", "n", "t", "i", "l">>,
      <<"w", "h", "i", "l", "e">>,
      <<"w", "i", "t", "h">>,
      <<"a", "b", "o", "u", "t">>,
      <<"a", "g", "a", "i", "n", "s", "t">>,
      <<"b", "e", "t", "w", "e", "e", "n">>,
      <<"i", "n", "t", "o">>,
      <<"t", "h", "r", "o", "u", "g", "h">>,
      <<"d", "u", "r", "i", "n", "g">>,
      <<"b", "e", "f", "o", "r", "e">>,
      <<"a", "f", "t", "e", "r">>,
      <<"a", "b", "o", "v", "e">>,
      <<"b", "e", "l", "o", "w">>,
      <<"f", "r", "o", "m">>,
      <<"d", "o", "w", "n">>,
      <<"o", "v", "e", "r">>,
      <<"u", "n", "d", "e", "r">>,
      <<"a", "g", "a", "i", "n">>,
      <<"f", "u", "r", "t", "h", "e", "r">>,
      <<"t", "h", "e", "n">>,
      <<"o", "n", "c", "e">>,
      <<"h", "e", "r", "e">>,
      <<"t", "h", "e", "r", "e">>,
      <<"w", "h", "e", "n">>,
      <<"w", "h", "e", "r", "e">>,
      <<"b", "o", "t", "h">>,
      <<"e", "a", "c", "h">>,
      <<"m", "o", "r", "e">>,
      <<"m", "o", "s", "t">>,
      <<"o", "t", "h", "e", "r">>,
      <<"s", "o", "m", "e">>,
      <<"s", "u", "c", "h">>,
      <<"o", "n", "l", "y">>,
      <<"s", "a", "m", "e">>,
      <<"t", "h", "a", "n">>,
      <<"v", "e", "r", "y">>,
      <<"w", "i", "l", "l">>,
      <<"j", "u", "s", "t">>,
      <<"s", "h", "o", "u", "l", "d">>,
      <<"a", "r", "e", "n">>,
      <<"c", "o", "u", "l", "d", "n">>,
      <<"d", "i", "d", "n">>,
      <<"d", "o", "e", "s", "n">>,
      <<"h", "a", "d", "n">>,
      <<"h", "a", "s", "n">>,
      <<"h", "a", "v", "e", "n">>,
      <<"m", "i", "g", "h", "t", "n">>,
      <<"m", "u", "s", "t", "n">>,
      <<"n", "e", "e", "d", "n">>,
      <<"s", "h", "a", "n">>,
      <<"s", "h", "o", "u", "l", "d", "n">>,
      <<"w", "a", "s", "n">>,
      <<"w", "e", "r", "e", "n">>,
      <<"w", "o", "u", "l", "d", "n">> }

Reverse(seq) == [i \in 1..Len(seq) |-> seq[Len(seq) + 1 - i]]

\* the candidate keywords of _extract_keywords_advanced
KeywordCandidates(txt) ==
    SelectSeq(custom_tokenize(txt), LAMBDA word : word \notin NltkStopwords /\ Len(word) > 3)

\* AIService._extract_keywords_advanced.  stopwords.words('english') is read
\* outside its try block; the encode calls inside it fall back to
\* _extract_keywords.
extract_keywords_advanced(txt, emb) ==
    LET candidates == KeywordCandidates(txt)
    IN  IF candidates = <<>> THEN extract_keywords(txt)
        ELSE IF emb.fail = "keyword_encode" THEN extract_keywords(txt)
        ELSE Take(IF emb.reverse THEN Reverse(candidates) ELSE candidates, 10)

\* an embedding analysis whose length factor has no cap
analyze_question_with_uncapped_length(question_content, emb) ==
    LET relevant_concepts == Take(ConceptRanking, emb.nconcepts)
        sentences == custom_sent_tokenize(question_content)
        words == custom_tokenize(Lower(question_content))
        avg_sentence_length == Rat(Len(words), Max(1, Len(sentences)))
        length_factor == Rat(Len(words), 25)
        sentence_factor ==
            RatMin(Rat(avg_sentence_length.n, avg_sentence_length.d * 10), Rat(3, 2))
        concept_factor == RatMin(Rat(3, 2), Rat(10 + 3 * Len(relevant_concepts), 10))
    IN  [type |-> emb.type,
         difficulty_score |->
             RatMin(Rat(5, 1), RatAdd(RatAdd(length_factor, sentence_factor), concept_factor)),
         word_count |-> Len(words),
         sentence_count |-> Len(sentences),
         keywords |-> extract_keywords_advanced(question_content, emb),
         relevant_concepts |-> relevant_concepts,
         original_content |-> question_content]

\* the body of the try block of analyze_question, when nothing raises out of it
analyze_question_with_embeddings(question_content, emb) ==
    LET relevant_concepts == Take(ConceptRanking, emb.nconcepts)
        sentences == custom_sent_tokenize(question_content)
        words == custom_tokenize(Lower(question_content))
        avg_sentence_length == Rat(Len(words), Max(1, Len(sentences)))
        length_factor == RatMin(Rat(Len(words), 25), Rat(2, 1))
        sentence_factor ==
            RatMin(Rat(avg_sentence_length.n, avg_sentence_length.d * 10), Rat(3, 2))
        concept_factor == RatMin(Rat(3, 2), Rat(10 + 3 * Len(relevant_concepts), 10))
    IN  [type |-> emb.type,
         difficulty_score |->
             RatMin(Rat(5, 1), RatAdd(RatAdd(length_factor, sentence_factor), concept_factor)),
         word_count |-> Len(words),
         sentence_count |-> Len(sentences),
         keywords |-> extract_keywords_advanced(question_content, emb),
         relevant_concepts |-> relevant_concepts,
         original_content |-> question_content]

\* analyze_question with the stopword load caught inside keyword extraction
analyze_question_stopwords_absorbed(ut, question_content, emb) ==
    IF ~ut THEN analyze_question_with_templates(question_content)
    ELSE IF emb.fail \in {"encode", "similarity", "concepts"}
    THEN analyze_question_with_templates(question_content)
    ELSE analyze_question_with_embeddings(question_content, emb)

\* AIService.analyze_question on an AIService whose use_transformers is ut
analyze_question(ut, question_content, emb) ==
    IF ~ut THEN analyze_question_with_templates(question_content)
    ELSE IF EmbRaises(emb) THEN analyze_question_with_templates(question_content)
    ELSE analyze_question_with_embeddings(question_content, emb)

(***************************************************************************)
(* Templates and placeholder substitution.  A template is a sequence of    *)
(* atoms in which each placeholder {keywordN} is an atom of its own.       *)
(***************************************************************************)
\* f"{{keyword{n}}}"
Placeholder(n) ==
    CASE n = 1 -> "{keyword1}"
      [] n = 2 -> "{keyword2}"
      [] n = 3 -> "{keyword3}"

\* a keyword as atoms: its characters, or the placeholder atom it spells
KeywordAtoms(keyword) ==
    LET spelled(n) == <<"{", "k", "e", "y", "w", "o", "r", "d", DigitChars[n + 1], "}">>
    IN  IF \E n \in 1..3 : keyword = spelled(n)
        THEN <<Placeholder(CHOOSE n \in 1..3 : keyword = spelled(n))>>
        ELSE keyword

RECURSIVE ReplaceAtom(_, _, _)
\* str.replace(placeholder, keyword)
ReplaceAtom(txt, placeholder, keyword) ==
    IF txt = <<>> THEN <<>>
    ELSE (IF Head(txt) = placeholder THEN KeywordAtoms(keyword) ELSE <<Head(txt)>>)
         \o ReplaceAtom(Tail(txt), placeholder, keyword)

RECURSIVE SubstituteFrom(_, _, _)
SubstituteFrom(txt, keywords, j) ==
    IF j > Len(keywords) THEN txt
    ELSE SubstituteFrom(ReplaceAtom(txt, Placeholder(j), keywords[j]), keywords, j + 1)

\* for j, keyword in enumerate(keywords[:3]): replace {keyword<j+1>} by keyword
Substitute(template, keywords) == SubstituteFrom(template, Take(keywords, 3), 1)

\* AIService._get_solution_template
get_solution_template(question_type) ==
    CASE question_type = "math" ->
           <<"To solve this equation, we need to isolate the variable by performing inverse operations. We'll move all constants to the right side and simplify to find the value of the variable.">>
      [] question_type = "physics" ->
           <<"This physics problem involves ", "{keyword1}",
             ", which can be solved using the principle of ", "{keyword2}",
             ". By applying the relevant equations and solving for the unknown variable, we find the final answer.">>
      [] OTHER ->
           <<"The solution to this problem involves understanding the concept of ",
             "{keyword1}", " and applying it correctly. By analyzing the ", "{keyword2}",
             " and considering its relationship with ", "{keyword3}",
             ", we can derive the answer.">>

\* AIService._get_step_templates
get_step_templates(question_type) ==
    CASE question_type = "math" ->
           << <<"Start with the given equation and identify what we're solving for.">>,
              <<"Rearrange the equation by performing the same operation on both sides to isolate the variable.">>,
              <<"Simplify the equation by combining like terms if necessary.">>,
              <<"Solve for the variable by performing the final calculation.">>,
              <<"Verify the solution by substituting back into the original equation.">> >>
      [] question_type = "physics" ->
           << <<"Identify the physical principles: This problem involves ", "{keyword1}", ".">>,
              <<"Set up the relevant equations: Write down the equations that relate to ",
                "{keyword2}", ".">>,
              <<"Solve for the unknown variable: Manipulate the equations to isolate the variable we're looking for.">>,
              <<"Calculate the final answer: Plug in the values and compute the result.">> >>
      [] OTHER ->
           << <<"Understand the problem: This question is asking about ", "{keyword1}", ".">>,
              <<"Identify the key concepts: The main ideas here are ", "{keyword2}", " and ",
                "{keyword3}", ".">>,
              <<"Apply the relevant principles: Use the theoretical framework to approach the problem.">>,
              <<"Derive the conclusion: Based on the analysis, we can determine the answer.">> >>

(***************************************************************************)
(* AIService.generate_solution                                             *)
(***************************************************************************)
\* template generation that uses the generic templates for every category
generate_solution_with_generic_templates(question_analysis, step_by_step) ==
    LET keywords == question_analysis.keywords
        step_templates == get_step_templates("other")
    IN  [content |-> Substitute(get_solution_template("other"), keywords),
         steps |-> IF step_by_step
                   THEN Some(JoinSteps([i \in 1..Len(step_templates) |->
                                           Substitute(step_templates[i], keywords)]))
                   ELSE None]

\* AIService._generate_solution_with_templates
generate_solution_with_templates(question_analysis, step_by_step) ==
    LET question_type == question_analysis.type
        keywords == question_analysis.keywords
        step_templates == get_step_templates(question_type)
    IN  [content |-> Substitute(get_solution_template(question_type), keywords),
         steps |-> IF step_by_step
                   THEN Some(JoinSteps([i \in 1..Len(step_templates) |->
                                           Substitute(step_templates[i], keywords)]))
                   ELSE None]

\* What the text-generation pipeline answers is an input of the call, gen: whether
\* it raises (fail) and the generated text with the prompt removed (out), a
\* sequence of sentences in which the marker "Step 1:" is an atom of its own.
Step1 == "Step 1:"

GenTexts ==
    { <<>>,
      <<"Isolate the variable.">>,
      <<"Here is the answer.", "Step 1:", "Read the question.">>,
      <<"First sentence.", "Second sentence.", "Third sentence.", "Fourth sentence.">> }

GenOutcomes == [fail : BOOLEAN, out : GenTexts]

\* the position of the first "Step 1:" in txt from position pos, 0 if there is none
RECURSIVE FindStep1(_, _)
FindStep1(txt, pos) ==
    IF pos > Len(txt) THEN 0
    ELSE IF txt[pos] = Step1 THEN pos ELSE FindStep1(txt, pos + 1)

\* a solution whose generator call fails is left without content
generate_solution_without_fallback(question_content, question_analysis, step_by_step, gen) ==
    IF gen.fail THEN [content |-> <<>>, steps |-> None]
    ELSE [content |-> gen.out, steps |-> None]

\* AIService._generate_solution_with_transformers
generate_solution_with_transformers(question_content, question_analysis, step_by_step, gen) ==
    IF gen.fail THEN generate_solution_with_templates(question_analysis, step_by_step)
    ELSE LET solution_text == gen.out
             first == FindStep1(solution_text, 1)
             second == FindStep1(solution_text, first + 1)
             sentences == solution_text
         IN  IF ~step_by_step THEN [content |-> solution_text, steps |-> None]
             ELSE IF first > 0
             THEN [content |-> SubSeq(solution_text, 1, first - 1),
                   steps |-> Some(<<Step1>> \o
                                  SubSeq(solution_text, first + 1,
                                         IF second > 0 THEN second - 1
                                         ELSE Len(solution_text)))]
             ELSE IF Len(sentences) > 3
             THEN [content |-> <<sentences[1]>>,
                   steps |-> Some(JoinSteps([i \in 1..(Len(sentences) - 1) |->
                                                <<sentences[i + 1]>>]))]
             ELSE [content |-> solution_text, steps |-> None]

\* One run of generate_solution on an AIService svc = [use_transformers, attrs]:
\* what it returned and the components it invoked, in order.
\* generate_solution without the solver's early return
GenerateSolutionWithoutReturn(equation_solution, svc, question_content, step_by_step, emb, gen) ==
    LET question_analysis == analyze_question(svc.use_transformers, question_content, emb)
    IN  IF svc.use_transformers /\ "generator" \in svc.attrs
        THEN [result |-> generate_solution_with_transformers(
                             question_content, question_analysis, step_by_step, gen),
              calls |-> <<"solve_basic_equation", "analyze_question", "generator">>
                        \o (IF gen.fail THEN <<"templates">> ELSE <<>>),
              analysis |-> Some(question_analysis)]
        ELSE [result |-> generate_solution_with_templates(question_analysis, step_by_step),
              calls |-> <<"solve_basic_equation", "analyze_question", "templates">>,
              analysis |-> Some(question_analysis)]

\* AIService.generate_solution once the solver has answered equation_solution:
\* what it returns, what it invoked, and the analysis it made
GenerateSolutionFrom(equation_solution, svc, question_content, step_by_step, emb, gen) ==
    LET question_analysis == analyze_question(svc.use_transformers, question_content, emb)
    IN  IF Len(equation_solution) > 0
        THEN [result |-> equation_solution[1], calls |-> <<"solve_basic_equation">>,
              analysis |-> None]
        ELSE IF svc.use_transformers /\ "generator" \in svc.attrs
        THEN [result |-> generate_solution_with_transformers(
                             question_content, question_analysis, step_by_step, gen),
              calls |-> <<"solve_basic_equation", "analyze_question", "generator">>
                        \o (IF gen.fail THEN <<"templates">> ELSE <<>>),
              analysis |-> Some(question_analysis)]
        ELSE [result |-> generate_solution_with_templates(question_analysis, step_by_step),
              calls |-> <<"solve_basic_equation", "analyze_question", "templates">>,
              analysis |-> Some(question_analysis)]

\* AIService.generate_solution
GenerateSolutionRun(svc, question_content, step_by_step, emb, gen) ==
    GenerateSolutionFrom(solve_basic_equation(question_content), svc, question_content,
                         step_by_step, emb, gen)

(***************************************************************************)
(* The texts the solver and generate_solution are run on.  An equation     *)
(* text is a prefix followed by one equation in x written with the         *)
(* numerals of a and b; a plain text holds no equation the solver solves.  *)
(***************************************************************************)
\* the spec's own examples use 12 and 34
NumValues == 0..MaxNum \cup {12, 34}

Prefixes ==
    << <<>>,
       <<"f", "i", "n", "d", " ", "x", " ", ":", " ">>,
       <<"S", "o", "l", "v", "e", " ", "f", "o", "r", " ", "x", ":", " ">>,
       <<"S", "O", "L", "V", "E", " ", " ", "F", "O", "R", " ", "X", " ", ":", " ">>,
       <<"W", "h", "a", "t", " ", "i", "s", " ", "2">> >>

PlainTexts ==
    << <<>>,
       <<"f", "o", "r", "c", "e", " ", "o", "n", " ", "c", "e", "l", "l", "s">>,
       <<"3", " ", "+", " ", "x", " ", "=", " ", "5">>,
       <<"x", " ", "*", " ", "3", " ", "=", " ", "1", "2">>,
       <<"0", "x", " ", "=", " ", "5">>,
       <<"0", " ", "*", " ", "x", " ", "=", " ", "1", "2">> >>

Forms == {"add", "sub", "mul", "mulstar"}

\* the numeral of n, with a leading zero when lead
Numeral(n, lead) == (IF lead THEN <<"0">> ELSE <<>>) \o StrInt(n)

Equation(form, a, b, sp) ==
    CASE form = "add" -> <<"x">> \o sp \o <<"+">> \o sp \o a \o sp \o <<"=">> \o sp \o b
      [] form = "sub" -> <<"x">> \o sp \o <<"-">> \o sp \o a \o sp \o <<"=">> \o sp \o b
      [] form = "mul" -> a \o <<"x">> \o sp \o <<"=">> \o sp \o b
      [] form = "mulstar" -> a \o sp \o <<"*">> \o sp \o <<"x">> \o sp \o <<"=">> \o sp \o b

\* equations behind every prefix, and compact ones (no blanks, a leading zero)
EquationInputs ==
    { i \in [family : {"equation"}, form : Forms, a : NumValues, b : NumValues,
             compact : BOOLEAN, prefix : 1..Len(Prefixes)] :
        /\ i.form \in {"mul", "mulstar"} => i.a # 0
        /\ i.compact => i.prefix = 1 }

PlainInputs ==
    [family : {"plain"}, form : {"none"}, a : {0}, b : {0}, compact : {FALSE},
     prefix : 1..Len(PlainTexts)]

\* the words the analysed texts are made of: category terms in several letter
\* cases, a term ending a sentence, and a word of no category
AnalyzeWords ==
    << <<"S", "o", "l", "v", "e">>,
       <<"E", "Q", "U", "A", "T", "I", "O", "N">>,
       <<"=">>,
       <<"f", "o", "r", "c", "e">>,
       <<"c", "e", "l", "l", "s", "?">>,
       <<"a", "p", "p", "l", "e">>,
       <<"m", "o", "l", "e", "c", "u", "l", "e">>,
       <<"C", "o", "d", "e">>,
       <<"{", "k", "e", "y", "w", "o", "r", "d", "2", "}">> >>

WordInputs ==
    UNION {[family : {"words"}, words : [1..n -> 1..Len(AnalyzeWords)]] : n \in 0..MaxWords}

RECURSIVE JoinWords(_, _)
JoinWords(ws, i) ==
    IF i > Len(ws) THEN <<>>
    ELSE (IF i > 1 THEN <<" ">> ELSE <<>>) \o AnalyzeWords[ws[i]] \o JoinWords(ws, i + 1)

\* long texts: count times the word "a", in one sentence or with a full stop
\* after every tenth word
LongCounts == {20, 40, 61, 80}

LongInputs == [family : {"long"}, words : {<<>>}, count : LongCounts, every : {0, 10}]

RECURSIVE LongText(_, _, _)
LongText(count, every, j) ==
    IF j > count THEN <<>>
    ELSE <<"a">> \o (IF every > 0 /\ j % every = 0 THEN <<".">> ELSE <<>>)
         \o (IF j < count THEN <<" ">> ELSE <<>>) \o LongText(count, every, j + 1)

TextOf(i) ==
    IF i.family = "long" THEN LongText(i.count, i.every, 1)
    ELSE IF i.family = "words" THEN JoinWords(i.words, 1)
    ELSE IF i.family = "plain" THEN PlainTexts[i.prefix]
    ELSE Prefixes[i.prefix]
         \o Equation(i.form, Numeral(i.a, i.compact), Numeral(i.b, FALSE),
                     IF i.compact THEN <<>> ELSE <<" ">>)

(***************************************************************************)
(* State shared by the specifications.                                     *)
(***************************************************************************)
Svc(s) == [use_transformers |-> use_transformers[s], attrs |-> attrs[s]]

\* the start of the process is not part of the history
NotRecorded == [available |-> TRUE, use_ai_models |-> TRUE, constructed |-> <<>>]

NoRequest == [op |-> "none", svc |-> "none", step_by_step |-> TRUE]

NoResponse == [status |-> 0, body |-> <<>>, detail |-> <<>>]

\* a successful answer carrying body, and an HTTPException
Ok(body) == [status |-> 200, body |-> body, detail |-> <<>>]

HttpError(status_code, detail) == [status |-> status_code, body |-> <<>>, detail |-> detail]

\* Every AIService is constructed when its module is imported, before any call:
\* with the models loaded, with the models switched off, or with a load that
\* failed after the generator was set.
BootOutcomes ==
    {AIServiceInit(TRUE, TRUE, 0), AIServiceInit(TRUE, FALSE, 0), AIServiceInit(TRUE, TRUE, 3)}

ServicesInit ==
    \E st \in [Services -> BootOutcomes] :
        /\ use_transformers = [s \in Services |-> st[s].use_transformers]
        /\ attrs = [s \in Services |-> st[s].attrs]

EmptyDatabase ==
    /\ questions = <<>>
    /\ hints = {}
    /\ solutions = {}

\* the failure of the embedding model and the outcome of each generator call
NoModelCalls == [emb |-> "none", gen |-> <<>>]

NoCallYet ==
    /\ req = NoRequest
    /\ resp = NoResponse
    /\ calls = <<>>
    /\ analysis = None
    /\ modelLog = NoModelCalls
    /\ solverLog = {}
    /\ ncalls = 0
    /\ inflight = <<>>
    /\ boot = NotRecorded

\* the entry a run of the solver by AIService s leaves in the history
Logged(s, result) == [use_transformers |-> use_transformers[s], result |-> result]

\* a solver that switches the models off, as __init__ does when a load fails
CallSolveDisablingModels(s) ==
    LET run == SolveRun(text)
    IN  /\ ncalls < MaxCalls
        /\ ncalls' = ncalls + 1
        /\ req' = [op |-> "solve_basic_equation", svc |-> s, step_by_step |-> TRUE]
        /\ resp' = Ok(run.result)
        /\ calls' = run.consulted
        /\ analysis' = None
        /\ modelLog' = NoModelCalls
        /\ solverLog' = solverLog \cup {Logged(s, run.result)}
        /\ use_transformers' = [use_transformers EXCEPT ![s] = FALSE]
        /\ UNCHANGED <<attrs, process, database, input, text>>

\* ai._solve_basic_equation(text), as test_equation.py calls it
CallSolve(s) ==
    LET run == SolveRun(text)
    IN  /\ ncalls < MaxCalls
        /\ ncalls' = ncalls + 1
        /\ req' = [op |-> "solve_basic_equation", svc |-> s, step_by_step |-> TRUE]
        /\ resp' = Ok(run.result)
        /\ calls' = run.consulted
        /\ analysis' = None
        /\ modelLog' = NoModelCalls
        /\ solverLog' = solverLog \cup {Logged(s, run.result)}
        /\ UNCHANGED <<service, process, database, input, text>>

\* The model outcomes a call consumes.  Where the code never reaches a model
\* the outcome is NoEmb / NoGen; the fields of an outcome the code does not
\* read on the path taken are held at their first value.
NoEmb == [fail |-> "none", type |-> "other", nconcepts |-> 0, reverse |-> FALSE]

NoGen == [fail |-> FALSE, out |-> <<>>]

EmbChoices(s) ==
    IF use_transformers[s]
    THEN {e \in (IF KeywordCandidates(text) # <<>> THEN EmbOutcomes
                 ELSE {o \in EmbOutcomes : o.fail # "keyword_encode"}) :
             /\ EmbRaises(e) => (e.type = "other" /\ e.nconcepts = 0)
             /\ e.fail # "none" => ~e.reverse}
    ELSE {NoEmb}

GenChoices(s) ==
    IF use_transformers[s] /\ "generator" \in attrs[s]
    THEN {g \in GenOutcomes : g.fail => g.out = <<>>}
    ELSE {NoGen}

\* a solution reads the analysis only on the template path, and there only its
\* keywords and whether its type is math, physics or another
SolutionEmbChoices(s, gen) ==
    {e \in EmbChoices(s) :
        /\ e.nconcepts = 0
        /\ e.type \in {"math", "physics", "other"}
        /\ e.fail \in {"none", "keyword_encode", "encode"}
        /\ (use_transformers[s] /\ ~gen.fail) => (e.type = "other" /\ ~e.reverse)}

\* The runs of generate_solution(question_content, step_by_step) by AIService
\* s under the generator outcomes gens and the embedding outcomes embs[gen]:
\* what the solver answered, the run, and what the models answered.
GenerateSolutionRuns(s, question_content, step_by_step, gens, embs) ==
    LET equation_solution == solve_basic_equation(question_content)
        solved == Len(equation_solution) > 0
    IN  UNION {
          {[solution |-> equation_solution,
            run |-> GenerateSolutionFrom(equation_solution, Svc(s), question_content,
                                         step_by_step, emb, gen),
            modelLog |-> [emb |-> emb.fail,
                          gen |-> IF solved \/ ~(use_transformers[s] /\ "generator" \in attrs[s])
                                  THEN <<>> ELSE <<gen>>]] :
             emb \in (IF solved THEN {NoEmb} ELSE embs[gen])} :
          gen \in (IF solved THEN {NoGen} ELSE gens)}

\* ai.generate_solution(text, step_by_step)
CallGenerateSolution(s, step_by_step) ==
    /\ ncalls < MaxCalls
    /\ \E g \in GenerateSolutionRuns(
                   s, text, step_by_step, GenChoices(s),
                   [gen \in GenChoices(s) |-> SolutionEmbChoices(s, gen)]) :
          /\ req' = [op |-> "generate_solution", svc |-> s, step_by_step |-> step_by_step]
          /\ resp' = Ok(Some(g.run.result))
          /\ calls' = g.run.calls
          /\ analysis' = g.run.analysis
          /\ modelLog' = g.modelLog
          /\ solverLog' = solverLog \cup {Logged(s, g.solution)}
    /\ ncalls' = ncalls + 1
    /\ UNCHANGED <<service, process, database, input, text>>

(***************************************************************************)
(* SpecSolver: direct calls of _solve_basic_equation on one text, by       *)
(* either AIService.                                                       *)
(***************************************************************************)
SolverInit ==
    /\ \E st \in [Services -> {AIServiceInit(TRUE, TRUE, 0), AIServiceInit(TRUE, FALSE, 0)}] :
          /\ use_transformers = [s \in Services |-> st[s].use_transformers]
          /\ attrs = [s \in Services |-> st[s].attrs]
    /\ EmptyDatabase
    /\ input \in EquationInputs \cup PlainInputs
    /\ text = TextOf(input)
    /\ NoCallYet

SolverNext == \E s \in Services : CallSolve(s)

SpecSolver == SolverInit /\ [][SolverNext]_vars

(***************************************************************************)
(* SpecGenerate: direct calls of generate_solution and of the solver on    *)
(* one text, by either AIService.                                          *)
(***************************************************************************)
GenerateInputs ==
    {i \in PlainInputs : i.prefix # Len(PlainTexts)} \cup
    {i \in EquationInputs : i.a = 3 /\ i.b = 12 /\ i.prefix \in {1, 3}}

GenerateInit ==
    /\ ServicesInit
    /\ EmptyDatabase
    /\ input \in GenerateInputs
    /\ text = TextOf(input)
    /\ NoCallYet

GenerateNext ==
    \/ \E s \in Services : CallSolve(s)
    \/ \E s \in Services, step_by_step \in BOOLEAN : CallGenerateSolution(s, step_by_step)

SpecGenerate == GenerateInit /\ [][GenerateNext]_vars

(***************************************************************************)
(* Properties of the solver, under SpecSolver.                             *)
(***************************************************************************)
EndsWith(s, t) ==
    /\ Len(s) >= Len(t)
    /\ SubSeq(s, Len(s) - Len(t) + 1, Len(s)) = t

\* the solution's content and its last step state x = v
StatesX(solution, v) ==
    /\ EndsWith(solution.content, <<"x = ">> \o v \o <<".">>)
    /\ Len(solution.steps) = 1
    /\ EndsWith(solution.steps[1], <<"x = ">> \o v)

SolverAnswered == req.op = "solve_basic_equation"

\* C1: on a text containing x + a = b the solver returns a solution stating
\* x = b - a, and on a text containing x - a = b one stating x = b + a, also
\* when other words precede the equation.
C1_AdditiveEquationsSolved ==
    (SolverAnswered /\ input.family = "equation" /\ input.form \in {"add", "sub"}) =>
        /\ Len(resp.body) = 1
        /\ StatesX(resp.body[1],
                   StrInt(IF input.form = "add" THEN input.b - input.a
                          ELSE input.b + input.a))

\* "find x : x - 3 = 12" was answered with x = 15
C1_Witness ==
    /\ SolverAnswered
    /\ input.family = "equation" /\ input.form = "sub" /\ input.prefix = 2
    /\ input.a = 3 /\ input.b = 12
    /\ Len(resp.body) = 1
    /\ StatesX(resp.body[1], <<"1", "5">>)

\* C2 as stated: for a text a*x = b or ax = b alone, a > 0 dividing b, the
\* solution states x = b/a as that integer.
C2_IntegerQuotientStated ==
    (/\ SolverAnswered
     /\ input.family = "equation" /\ input.form \in {"mul", "mulstar"}
     /\ input.prefix = 1
     /\ input.b % input.a = 0) =>
        /\ Len(resp.body) = 1
        /\ StatesX(resp.body[1], StrInt(input.b \div input.a))

\* the patterns in the order the solver searches them
PatternOrder ==
    <<"solve_pattern", "simple_addition", "subtraction_pattern", "multiplication_pattern">>

PatternNamed(name) ==
    CASE name = "solve_pattern" -> solve_pattern
      [] name = "simple_addition" -> simple_addition
      [] name = "subtraction_pattern" -> subtraction_pattern
      [] name = "multiplication_pattern" -> multiplication_pattern

MatchOf(name, txt) == re_search(PatternNamed(name), txt, name = "solve_pattern")

\* what the branch of a pattern returns for its match m
BuiltBy(name, m) ==
    LET constant == ParseInt(m.groups[1])
        result == ParseInt(m.groups[2])
    IN  CASE name = "solve_pattern" -> Some(SolveForXResult(constant, result))
          [] name = "simple_addition" -> Some(AdditionResult(constant, result))
          [] name = "subtraction_pattern" -> Some(SubtractionResult(constant, result))
          [] name = "multiplication_pattern" ->
                 IF constant = 0 THEN None
                 ELSE Some(MultiplicationResult(constant, result))

\* C3 (amended): the solver searches the "solve for x" phrasing first, then
\* x + a = b, then x - a = b, then a*x = b; it stops at the first pattern that
\* matches and returns what that pattern's branch builds, and None when no
\* pattern matches.
C3_FirstMatchingPatternInCodeOrder ==
    SolverAnswered =>
        \E k \in 1..Len(PatternOrder) :
            /\ calls = SubSeq(PatternOrder, 1, k)
            /\ \A j \in 1..(k - 1) : ~MatchOf(PatternOrder[j], text).ok
            /\ LET m == MatchOf(PatternOrder[k], text)
               IN  IF m.ok THEN resp.body = BuiltBy(PatternOrder[k], m)
                   ELSE k = Len(PatternOrder) /\ resp.body = None

\* "Solve for x: x + 3 = 12" was answered by the first pattern alone, and
\* "x + 3 = 12" by the second after the first was searched
C3_Witness ==
    /\ SolverAnswered
    /\ input.family = "equation" /\ input.form = "add" /\ input.a = 3 /\ input.b = 12
    /\ \/ input.prefix = 3 /\ calls = <<"solve_pattern">>
       \/ input.prefix = 1 /\ calls = <<"solve_pattern", "simple_addition">>

\* C3 as stated: the result is built by the first pattern that matches in the
\* order x + a = b, x - a = b, a*x = b, then the "solve for x" phrasing.
C3_AdditionSearchedFirst ==
    SolverAnswered =>
        resp.body = SolveRunAdditionFirst(text).result

(***************************************************************************)
(* Properties of generate_solution and of the solver's effects, under      *)
(* SpecGenerate.                                                           *)
(***************************************************************************)
GenerateAnswered == req.op = "generate_solution"

NoPatternMatches(txt) ==
    \A j \in 1..Len(PatternOrder) : ~MatchOf(PatternOrder[j], txt).ok

\* C4: in generate_solution the solver runs first, and when it returns a result
\* generate_solution returns exactly that result and invokes neither
\* analyze_question, the text-generation model nor the template generator.
C4_SolverResultReturnedFirst ==
    GenerateAnswered =>
        /\ calls[1] = "solve_basic_equation"
        /\ Len(solve_basic_equation(text)) > 0 =>
              /\ resp.body = solve_basic_equation(text)
              /\ calls = <<"solve_basic_equation">>
              /\ analysis = None

\* generate_solution on "Solve for x: 3x = 12", by an AIService whose models are
\* loaded, returned the solver's result
C4_Witness ==
    /\ GenerateAnswered
    /\ use_transformers[req.svc]
    /\ input.family = "equation" /\ input.form = "mul" /\ input.prefix = 3
    /\ resp.body = solve_basic_equation(text)
    /\ Len(resp.body) = 1

\* C5: for a text that matches no pattern of the solver, the solver returns None
\* and generate_solution returns a solution: the model's text, or the template
\* solution of the analysed category.
C5_UnmatchedTextGetsGeneralSolution ==
    (GenerateAnswered /\ NoPatternMatches(text)) =>
        /\ Logged(req.svc, None) \in solverLog
        /\ resp.status = 200
        /\ Len(resp.body) = 1
        /\ Len(analysis) = 1
        /\ SubSeq(calls, 1, 2) = <<"solve_basic_equation", "analyze_question">>
        /\ IF "templates" \in {calls[i] : i \in 1..Len(calls)}
           THEN resp.body[1].content
                    = Substitute(get_solution_template(analysis[1].type),
                                 analysis[1].keywords)
           ELSE /\ calls[3] = "generator"
                /\ \E out \in GenTexts :
                       /\ Len(resp.body[1].content) <= Len(out)
                       /\ resp.body[1].content
                              = SubSeq(out, 1, Len(resp.body[1].content))

\* "force on cells" got the physics template from an AIService without models,
\* and a model text from one with models
C5_Witness ==
    /\ GenerateAnswered
    /\ input.family = "plain" /\ input.prefix = 2
    /\ Len(resp.body) = 1
    /\ \/ /\ ~use_transformers[req.svc]
          /\ analysis[1].type = "physics"
          /\ resp.body[1].content = Substitute(get_solution_template("physics"),
                                               analysis[1].keywords)
       \/ /\ use_transformers[req.svc]
          /\ calls = <<"solve_basic_equation", "analyze_question", "generator">>
          /\ resp.body[1].content = <<"Isolate the variable.">>

\* every result the solver gave for the text is the same one
SolverDeterministic == \A e1, e2 \in solverLog : e1.result = e2.result

\* a step that runs the solver alone changes no field of an AIService and no
\* stored row
SolverChangesNothing ==
    req'.op = "solve_basic_equation" => UNCHANGED <<service, process, database>>

AnalyzePath(ut, emb) ==
    IF ~ut THEN <<"keyword">>
    ELSE IF EmbRaises(emb) THEN <<"embedding", "keyword">>
    ELSE <<"embedding">>

\* ai_service.analyze_question(text)
Analyze(s) ==
    /\ ncalls = 0
    /\ \E emb \in EmbChoices(s) :
         LET question_analysis == analyze_question(use_transformers[s], text, emb)
         IN  /\ req' = [op |-> "analyze_question", svc |-> s, step_by_step |-> TRUE]
             /\ resp' = Ok(Some(question_analysis))
             /\ analysis' = Some(question_analysis)
             /\ calls' = AnalyzePath(use_transformers[s], emb)
             /\ modelLog' = [emb |-> emb.fail, gen |-> <<>>]
    /\ ncalls' = ncalls + 1
    /\ UNCHANGED <<service, process, database, input, text, solverLog>>

AnalyzeInit ==
    /\ \E st \in [Services -> {AIServiceInit(TRUE, TRUE, 0), AIServiceInit(TRUE, TRUE, 3)}] :
          /\ use_transformers = [s \in Services |-> st[s].use_transformers]
          /\ attrs = [s \in Services |-> st[s].attrs]
    /\ EmptyDatabase
    /\ input \in WordInputs \cup LongInputs
    /\ text = TextOf(input)
    /\ NoCallYet

AnalyzeNext == \E s \in Services : Analyze(s)

SpecAnalyze == AnalyzeInit /\ [][AnalyzeNext]_vars

(***************************************************************************)
(* Properties of analyze_question, under SpecAnalyze.                      *)
(***************************************************************************)
AnalyzeAnswered == req.op = "analyze_question"

\* the analysis came from _analyze_question_with_templates
OnKeywordPath == AnalyzeAnswered /\ calls[Len(calls)] = "keyword"

\* the text with every upper-case letter replaced by its lower-case letter
LowerText == [i \in 1..Len(text) |-> IF text[i] \in UpperSet THEN LowerMap[text[i]] ELSE text[i]]

\* C8: on the keyword path a text that contains "solve", "equation" or "=", in
\* any letter case and whatever other category terms it holds, is classified
\* as math.
C8_SolveEquationEqualsAreMath ==
    (/\ OnKeywordPath
     /\ \/ Contains(LowerText, <<"s", "o", "l", "v", "e">>)
        \/ Contains(LowerText, <<"e", "q", "u", "a", "t", "i", "o", "n">>)
        \/ Contains(LowerText, <<"=">>)) =>
        resp.body[1].type = "math"

\* "force EQUATION" was classified as math by an AIService without models
C8_Witness ==
    /\ OnKeywordPath
    /\ ~use_transformers[req.svc]
    /\ input.words = <<4, 2>>
    /\ resp.body[1].type = "math"

\* C9 (amended): a failure that leaves the try block of analyze_question (the
\* encoding of the question, the similarities, the concept retrieval, the
\* stopword load of keyword extraction) gives exactly the keyword-path result,
\* with no relevant concepts, and leaves use_transformers true; a failure of the
\* encoding inside keyword extraction stays on the embedding path, which keeps
\* its own result and takes only the keywords from the fallback extraction.
C9_EmbeddingFailureFallsBack ==
    AnalyzeAnswered =>
        /\ modelLog.emb \in {"encode", "similarity", "concepts", "stopwords"} =>
              /\ resp.status = 200
              /\ resp.body = Some(analyze_question_with_templates(text))
              /\ resp.body[1].relevant_concepts = <<>>
              /\ use_transformers[req.svc]
        /\ modelLog.emb = "keyword_encode" =>
              /\ resp.status = 200
              /\ calls = <<"embedding">>
              /\ resp.body[1].keywords = extract_keywords(text)
              /\ \E e \in EmbOutcomes :
                    /\ e.fail = "none"
                    /\ resp.body[1].type = e.type
                    /\ resp.body[1].relevant_concepts = Take(ConceptRanking, e.nconcepts)
                    /\ resp.body[1].difficulty_score
                          = analyze_question_with_embeddings(text, e).difficulty_score
              /\ use_transformers[req.svc]

\* the stopword load failed while "Solve force" was analysed, and the answer is
\* the keyword-path one
C9_Witness ==
    /\ AnalyzeAnswered
    /\ modelLog.emb = "stopwords"
    /\ input.words = <<1, 4>>
    /\ resp.body = Some(analyze_question_with_templates(text))
    /\ calls = <<"embedding", "keyword">>

\* C9 as stated: after any failure on the embedding path the answer is exactly
\* the keyword-path result, with no relevant concepts.
C9_AnyFailureGivesKeywordResult ==
    (AnalyzeAnswered /\ modelLog.emb # "none") =>
        /\ resp.body = Some(analyze_question_with_templates(text))
        /\ resp.body[1].relevant_concepts = <<>>
        /\ use_transformers[req.svc]

(***************************************************************************)
(* Hint generation.                                                        *)
(***************************************************************************)
\* AIService._get_hint_templates: three levels of three templates
get_hint_templates(question_type) ==
    IF question_type = "math"
    THEN << << <<"Think about isolating the variable by moving all other terms to the opposite side of the equation.">>,
               <<"Remember that you can add or subtract the same value from both sides of an equation.">>,
               <<"Start by identifying what operation you need to perform to isolate the variable.">> >>,
            << <<"To solve for the variable, you need to perform the inverse operation of what's being applied to it.">>,
               <<"If you have x + a = b, you can subtract a from both sides to isolate x.">>,
               <<"If you have ax = b, you can divide both sides by a to isolate x.">> >>,
            << <<"Rearrange the equation step by step, keeping track of what you do to maintain the equality.">>,
               <<"After isolating the variable on one side, simplify the expression on the other side to get your answer.">>,
               <<"Check your answer by substituting it back into the original equation to verify it's correct.">> >> >>
    ELSE IF question_type = "physics"
    THEN << << <<"Think about the relevant physical laws.">>,
               <<"Consider the units of each quantity.">>,
               <<"Identify the forces acting on the object.">> >>,
            << <<"Use the equation for ", "{keyword1}", " in this problem.">>,
               <<"Convert units appropriately before calculation.">>,
               <<"Draw a free-body diagram to visualize the problem.">> >>,
            << <<"Apply the conservation of ", "{keyword1}", " principle.">>,
               <<"Consider both initial and final states of the system.">>,
               <<"This problem requires integrating the ", "{keyword1}", " over time.">> >> >>
    ELSE << << <<"Start by identifying the key concepts.">>,
               <<"Consider what the question is asking for.">>,
               <<"Look for clues in the wording of the question.">> >>,
            << <<"Break down the problem into smaller parts.">>,
               <<"Focus on the relationship between ", "{keyword1}", " and ", "{keyword2}", ".">>,
               <<"Try applying the concept of ", "{keyword1}", " to this problem.">> >>,
            << <<"This problem involves advanced application of ", "{keyword1}", ".">>,
               <<"Consider the implications of combining ", "{keyword1}", " with ", "{keyword2}", ".">>,
               <<"Apply the theoretical framework to solve this problem.">> >> >>

\* the levels of a batch that max_level does not limit
HintLevelsUpToNumHints(num_hints, max_level) == 1..num_hints

\* the levels range(1, min(num_hints + 1, max_level + 1)) runs through
HintLevels(num_hints, max_level) == 1..Min(num_hints, max_level)

\* a template hint whose choice among the templates also follows the length of
\* the question
TemplateHintByWordCount(question_analysis, level, pick) ==
    LET hint_templates == get_hint_templates(question_analysis.type)
        templates == hint_templates[Min(level, Len(hint_templates))]
    IN  [content |-> Substitute(
                         templates[((pick + question_analysis.word_count) % Len(templates)) + 1],
                         question_analysis.keywords),
         level |-> level]

\* the fallback hint of a level: the template random.choice picked, with the
\* keywords substituted
TemplateHint(question_analysis, level, pick) ==
    LET hint_templates == get_hint_templates(question_analysis.type)
    IN  [content |-> Substitute(hint_templates[Min(level, Len(hint_templates))][pick],
                                question_analysis.keywords),
         level |-> level]

\* AIService._generate_hints_with_templates; picks[i] is what random.choice
\* picks for level i
generate_hints_with_templates(question_analysis, num_hints, max_level, picks) ==
    [i \in HintLevels(num_hints, max_level) |-> TemplateHint(question_analysis, i, picks[i])]

\* What the generator answers for the prompt of one level: whether it raises, and
\* the generated text without the prompt as a sequence of sentences.
HintTexts == { <<>>, <<"Look at the units.", "Then compute the result.">> }

\* the hint made of a generated text: its first sentence
ModelHint(out, level) ==
    [content |-> IF Len(out) > 0 THEN <<out[1]>> ELSE out, level |-> level]

\* hint generation in which a level whose generator call fails yields no hint
generate_hints_dropping_failed(question_analysis, num_hints, max_level, gens, picks) ==
    LET all == [level \in HintLevels(num_hints, max_level) |->
                   ModelHint(gens[level].out, IF gens[level].fail THEN 0 ELSE level)]
    IN  SelectSeq(all, LAMBDA h : h.level > 0)

\* AIService._generate_hints_with_transformers; gens[level] is the generator's
\* outcome for the prompt of that level
generate_hints_with_transformers(question_analysis, num_hints, max_level, gens, picks) ==
    [level \in HintLevels(num_hints, max_level) |->
        IF gens[level].fail
        THEN TemplateHint(question_analysis, level, picks[level])
        ELSE ModelHint(gens[level].out, level)]

\* AIService.generate_hints once analyze_question has answered
\* question_analysis: the hints and the path taken
GenerateHintsFrom(question_analysis, svc, num_hints, max_level, gens, picks) ==
    IF svc.use_transformers /\ "generator" \in svc.attrs
    THEN [result |-> generate_hints_with_transformers(
                         question_analysis, num_hints, max_level, gens, picks),
          calls |-> <<"analyze_question", "generator">>,
          analysis |-> Some(question_analysis)]
    ELSE [result |-> generate_hints_with_templates(
                         question_analysis, num_hints, max_level, picks),
          calls |-> <<"analyze_question", "templates">>,
          analysis |-> Some(question_analysis)]

\* AIService.generate_hints
GenerateHintsRun(svc, question_content, num_hints, max_level, emb, gens, picks) ==
    GenerateHintsFrom(analyze_question(svc.use_transformers, question_content, emb),
                      svc, num_hints, max_level, gens, picks)

(***************************************************************************)
(* SpecHints: generate_hints applied once to a text, by either AIService,  *)
(* with every outcome of the generator for each level and every template   *)
(* random.choice can pick.                                                 *)
(***************************************************************************)
HintInputs == {i \in WordInputs : i.words \in {<<1, 3>>, <<4, 5>>, <<6>>, <<9, 4>>}}

TemplateCount == 3

\* the generator's outcomes for the prompts of the levels, and the picks of
\* random.choice for the levels that fall back to a template
HintGenChoices(s, levels) ==
    IF use_transformers[s] /\ "generator" \in attrs[s]
    THEN {g \in [levels -> [fail : BOOLEAN, out : HintTexts]] :
             \A l \in levels : g[l].fail => g[l].out = <<>>}
    ELSE {[l \in levels |-> NoGen]}

HintPickChoices(s, levels, gens) ==
    {p \in [levels -> 1..TemplateCount] :
        \A l \in levels :
            (use_transformers[s] /\ "generator" \in attrs[s] /\ ~gens[l].fail) => p[l] = 1}

\* a hint reads the analysis only where a template is used, and there only its
\* keywords and whether its type is math, physics or another
HintEmbChoices(s, levels, gens) ==
    {e \in EmbChoices(s) :
        /\ e.nconcepts = 0
        /\ e.type \in {"math", "physics", "other"}
        /\ e.fail \in {"none", "keyword_encode", "encode"}
        /\ (use_transformers[s] /\ \A l \in levels : ~gens[l].fail) =>
               (e.type = "other" /\ ~e.reverse)}

\* the analyses analyze_question may return in a call of generate_hints, each
\* with the failure of the embedding model it follows
HintAnalyses(s, question_content, levels, gens) ==
    {[fail |-> emb.fail,
      analysis |-> analyze_question(use_transformers[s], question_content, emb)] :
        emb \in HintEmbChoices(s, levels, gens)}

\* ai_service.generate_hints(text, num_hints, max_level)
CallGenerateHints(s, num_hints, max_level) ==
    LET levels == HintLevels(num_hints, max_level)
        modelled == use_transformers[s] /\ "generator" \in attrs[s]
    IN  /\ ncalls = 0
        /\ \E gens \in HintGenChoices(s, levels) :
           \E a \in HintAnalyses(s, text, levels, gens) :
           \E picks \in HintPickChoices(s, levels, gens) :
           \E run \in {GenerateHintsFrom(a.analysis, Svc(s), num_hints, max_level,
                                         gens, picks)} :
              /\ req' = [op |-> "generate_hints", svc |-> s, step_by_step |-> TRUE,
                         num_hints |-> num_hints, max_level |-> max_level]
              /\ resp' = Ok(run.result)
              /\ calls' = run.calls
              /\ analysis' = run.analysis
              /\ modelLog' = [emb |-> a.fail,
                              gen |-> IF modelled THEN [l \in levels |-> gens[l]] ELSE <<>>]
        /\ ncalls' = ncalls + 1
        /\ UNCHANGED <<service, process, database, input, text, solverLog>>

HintsInit ==
    /\ \E st \in [Services -> {AIServiceInit(TRUE, TRUE, 0), AIServiceInit(TRUE, TRUE, 3)}] :
          /\ use_transformers = [s \in Services |-> st[s].use_transformers]
          /\ attrs = [s \in Services |-> st[s].attrs]
    /\ EmptyDatabase
    /\ input \in HintInputs
    /\ text = TextOf(input)
    /\ NoCallYet

HintsNext ==
    \E s \in Services, num_hints \in -1..MaxHints, max_level \in -1..MaxLevel :
        CallGenerateHints(s, num_hints, max_level)

SpecHints == HintsInit /\ [][HintsNext]_vars

(***************************************************************************)
(* Properties of hint generation, under SpecHints.                         *)
(***************************************************************************)
HintsAnswered == req.op = "generate_hints"

\* the hints came from _generate_hints_with_transformers
OnModelHintPath == HintsAnswered /\ calls = <<"analyze_question", "generator">>

\* C10: in model-based hint generation a failure of the model on the hint of
\* level k affects only that hint: the batch has one hint per level, the hint at
\* position k is a template hint of level k, and every hint whose model call
\* succeeded has the content the model generated for it and its level.
C10_FailedHintAloneFallsBack ==
    OnModelHintPath =>
        /\ Len(resp.body) = Len(modelLog.gen)
        /\ Len(resp.body) = Cardinality(HintLevels(req.num_hints, req.max_level))
        /\ \A k \in 1..Len(resp.body) :
              /\ resp.body[k].level = k
              /\ IF modelLog.gen[k].fail
                 THEN \E pick \in 1..TemplateCount :
                         resp.body[k].content
                            = Substitute(
                                get_hint_templates(analysis[1].type)[Min(k, 3)][pick],
                                analysis[1].keywords)
                 ELSE resp.body[k].content
                         = SubSeq(modelLog.gen[k].out, 1, Min(1, Len(modelLog.gen[k].out)))

\* of three hints for "force cells?" the model failed on the second alone, which
\* is a template hint, and the first and third are the model's
C10_Witness ==
    /\ OnModelHintPath
    /\ input.words = <<4, 5>>
    /\ Len(resp.body) = 3
    /\ ~modelLog.gen[1].fail /\ modelLog.gen[2].fail /\ ~modelLog.gen[3].fail
    /\ resp.body[1] = [content |-> <<"Look at the units.">>, level |-> 1]
    /\ resp.body[3] = [content |-> <<"Look at the units.">>, level |-> 3]
    /\ resp.body[2].level = 2
    /\ resp.body[2].content[1] \in {"Use the equation for ", "Break down the problem into smaller parts.",
                                    "If you have ax = b, you can divide both sides by a to isolate x."}

(***************************************************************************)
(* Spec: the HTTP API.  The routes of questions.py work on the database    *)
(* through QuestionService and on the AIService of that module; the routes *)
(* of direct_routes.py work on their own AIService and store nothing.      *)
(* Each request is answered in one step.                                   *)
(***************************************************************************)
\* the texts a request or a question carries: empty, one that matches no
\* pattern, one whose match divides by zero, and the equation "3x = 12"
RequestTexts ==
    {PlainTexts[i] : i \in {1, 2, 5}} \cup {Equation("mul", StrInt(3), StrInt(12), <<" ">>)}

QuestionIds == 1..MaxQuestions

\* the rowid SQLite gives the next row of a table whose rows have these ids
NextId(ids) == IF ids = {} THEN 1 ELSE (CHOOSE m \in ids : \A i \in ids : i <= m) + 1

\* QuestionService.get_question: the stored ids are the domain of questions
HasQuestion(question_id) == question_id \in DOMAIN questions

SolutionsOf(question_id) == {r \in solutions : r.question_id = question_id}

\* QuestionService.get_solution: the first row of the question, if any
get_solution(question_id) ==
    LET rows == SolutionsOf(question_id)
    IN  IF rows = {} THEN None
        ELSE Some(CHOOSE r \in rows : \A o \in rows : r.id <= o.id)

QuestionNotFound(question_id) ==
    HttpError(404, <<"Question with ID ">> \o StrInt(question_id) \o <<" not found">>)

\* what a request leaves when it ends before any AIService call
Refused(error) ==
    [resp |-> error, calls |-> <<>>, analysis |-> None, modelLog |-> NoModelCalls]

\* the outcomes of the models a request to AIService s may meet
HttpGenChoices(s) ==
    {g \in GenChoices(s) : g = NoGen \/ g.fail \/ g.out = <<"Isolate the variable.">>}

HttpEmbChoices(s, gen) ==
    {e \in SolutionEmbChoices(s, gen) :
        e.fail \in {"none", "encode"} /\ e.type = "other" /\ ~e.reverse}

HttpRequest(op, s, question_id, content, step_by_step) ==
    [op |-> op, svc |-> s, step_by_step |-> step_by_step,
     question_id |-> question_id, content |-> content]

\* POST /questions/: of the row, its id and its content are kept
CreateQuestion(content) ==
    LET id == NextId(DOMAIN questions)
        question == [id |-> id, content |-> content]
    IN  /\ ncalls < MaxCalls
        /\ id <= MaxQuestions
        /\ questions' = (id :> question) @@ questions
        /\ req' = HttpRequest("create_question", "none", id, content, TRUE)
        /\ resp' = [status |-> 201, body |-> Some(question), detail |-> <<>>]
        /\ calls' = <<>>
        /\ analysis' = None
        /\ modelLog' = NoModelCalls
        /\ ncalls' = ncalls + 1
        /\ UNCHANGED <<service, process, hints, solutions, input, text, solverLog>>

\* DELETE /questions/{question_id}: the hints and the solution of the question
\* go with it
DeleteQuestion(question_id) ==
    /\ ncalls < MaxCalls
    /\ IF HasQuestion(question_id)
       THEN /\ questions' = [i \in DOMAIN questions \ {question_id} |-> questions[i]]
            /\ hints' = {h \in hints : h.question_id # question_id}
            /\ solutions' = solutions \ SolutionsOf(question_id)
            /\ resp' = [status |-> 204, body |-> <<>>, detail |-> <<>>]
       ELSE /\ resp' = QuestionNotFound(question_id)
            /\ UNCHANGED database
    /\ req' = HttpRequest("delete_question", "none", question_id, <<>>, TRUE)
    /\ calls' = <<>>
    /\ analysis' = None
    /\ modelLog' = NoModelCalls
    /\ ncalls' = ncalls + 1
    /\ UNCHANGED <<service, process, input, text, solverLog>>

\* what POST /questions/{question_id}/solution may answer, and the row it stores
CreateSolutionOutcomes(question_id, step_by_step) ==
    IF ~HasQuestion(question_id)
    THEN {Refused(QuestionNotFound(question_id)) @@ [stored |-> {}]}
    ELSE IF Len(get_solution(question_id)) > 0
    THEN {Refused(HttpError(400, <<"Solution for question with ID ">>
                                     \o StrInt(question_id) \o <<" already exists">>))
          @@ [stored |-> {}]}
    ELSE {LET solution == [id |-> NextId({r.id : r \in solutions}),
                           question_id |-> question_id,
                           content |-> g.run.result.content,
                           steps |-> g.run.result.steps]
          IN  [resp |-> Ok(Some(solution)), calls |-> g.run.calls,
               analysis |-> g.run.analysis, modelLog |-> g.modelLog,
               stored |-> {solution}] :
          g \in GenerateSolutionRuns(
                   "questions", questions[question_id].content, step_by_step,
                   HttpGenChoices("questions"),
                   [gen \in HttpGenChoices("questions") |-> HttpEmbChoices("questions", gen)])}

\* POST /questions/{question_id}/solution
CreateSolution(question_id, step_by_step) ==
    /\ ncalls < MaxCalls
    /\ \E out \in CreateSolutionOutcomes(question_id, step_by_step) :
          /\ solutions' = solutions \cup out.stored
          /\ resp' = out.resp
          /\ calls' = out.calls
          /\ analysis' = out.analysis
          /\ modelLog' = out.modelLog
    /\ req' = HttpRequest("create_solution", "questions", question_id, <<>>, step_by_step)
    /\ ncalls' = ncalls + 1
    /\ UNCHANGED <<service, process, questions, hints, input, text, solverLog>>

\* GET /questions/{question_id}/solution
GetSolution(question_id) ==
    /\ ncalls < MaxCalls
    /\ resp' = IF ~HasQuestion(question_id) THEN QuestionNotFound(question_id)
               ELSE IF Len(get_solution(question_id)) = 0
               THEN HttpError(404, <<"Solution for question with ID ">>
                                       \o StrInt(question_id) \o <<" not found">>)
               ELSE Ok(get_solution(question_id))
    /\ req' = HttpRequest("get_solution", "none", question_id, <<>>, TRUE)
    /\ calls' = <<>>
    /\ analysis' = None
    /\ modelLog' = NoModelCalls
    /\ ncalls' = ncalls + 1
    /\ UNCHANGED <<service, process, database, input, text, solverLog>>

\* what POST /generate-solution may answer: the solver is tried first, and
\* generate_solution, which tries it again, only when it returned None
GenerateSolutionDirectlyOutcomes(question_content, step_by_step) ==
    LET solution == solve_basic_equation(question_content)
    IN  IF Len(question_content) = 0
        THEN {Refused(HttpError(400, <<"Question content is required for direct generation">>))}
        ELSE IF Len(solution) > 0
        THEN {[resp |-> Ok(solution), calls |-> <<"solve_basic_equation">>,
               analysis |-> None, modelLog |-> NoModelCalls]}
        ELSE {[resp |-> Ok(Some([content |-> g.run.result.content,
                                 steps |-> g.run.result.steps])),
               calls |-> <<"solve_basic_equation">> \o g.run.calls,
               analysis |-> g.run.analysis, modelLog |-> g.modelLog] :
              g \in GenerateSolutionRuns(
                       "direct", question_content, step_by_step, HttpGenChoices("direct"),
                       [gen \in HttpGenChoices("direct") |-> HttpEmbChoices("direct", gen)])}

\* POST /generate-solution
GenerateSolutionDirectly(question_content, step_by_step) ==
    /\ ncalls < MaxCalls
    /\ \E out \in GenerateSolutionDirectlyOutcomes(question_content, step_by_step) :
          /\ resp' = out.resp
          /\ calls' = out.calls
          /\ analysis' = out.analysis
          /\ modelLog' = out.modelLog
    /\ req' = HttpRequest("generate_solution_directly", "direct", 0, question_content,
                          step_by_step)
    /\ ncalls' = ncalls + 1
    /\ UNCHANGED <<service, process, database, input, text, solverLog>>

\* a /solve-equation that reports a text it could not solve as an empty answer
SolveEquationReportingNoSolution(question_content) ==
    LET solution == solve_basic_equation(question_content)
    IN  IF Len(question_content) = 0
        THEN Refused(HttpError(400, <<"Equation is required">>))
        ELSE [resp |-> Ok(solution), calls |-> <<"solve_basic_equation">>,
              analysis |-> None, modelLog |-> NoModelCalls]

\* what POST /solve-equation answers
SolveEquationDirectlyOutcome(question_content) ==
    LET solution == solve_basic_equation(question_content)
    IN  IF Len(question_content) = 0
        THEN Refused(HttpError(400, <<"Equation is required">>))
        ELSE IF Len(solution) = 0
        THEN [resp |-> HttpError(400, <<"Could not parse or solve the equation">>),
              calls |-> <<"solve_basic_equation">>,
              analysis |-> None, modelLog |-> NoModelCalls]
        ELSE [resp |-> Ok(solution), calls |-> <<"solve_basic_equation">>,
              analysis |-> None, modelLog |-> NoModelCalls]

\* POST /solve-equation
SolveEquationDirectly(question_content) ==
    LET out == SolveEquationDirectlyOutcome(question_content)
    IN  /\ ncalls < MaxCalls
        /\ resp' = out.resp
        /\ calls' = out.calls
        /\ analysis' = out.analysis
        /\ modelLog' = out.modelLog
        /\ req' = HttpRequest("solve_equation_directly", "direct", 0, question_content, TRUE)
        /\ ncalls' = ncalls + 1
        /\ UNCHANGED <<service, process, database, input, text, solverLog>>

\* the application after import: both AIServices constructed, the tables empty
Init ==
    /\ ServicesInit
    /\ EmptyDatabase
    /\ input = [family |-> "plain", prefix |-> 1]
    /\ text = TextOf(input)
    /\ NoCallYet

Next ==
    \/ \E content \in RequestTexts : CreateQuestion(content)
    \/ \E question_id \in QuestionIds : DeleteQuestion(question_id)
    \/ \E question_id \in QuestionIds, step_by_step \in BOOLEAN :
          CreateSolution(question_id, step_by_step)
    \/ \E question_id \in QuestionIds : GetSolution(question_id)
    \/ \E content \in RequestTexts, step_by_step \in BOOLEAN :
          GenerateSolutionDirectly(content, step_by_step)
    \/ \E content \in RequestTexts : SolveEquationDirectly(content)

Spec == Init /\ [][Next]_vars

(***************************************************************************)
(* Properties of Spec: the callers of the solver.                          *)
(***************************************************************************)
SolverCallers ==
    {"generate_solution_directly", "solve_equation_directly", "create_solution"}

\* the text the answered request gave to _solve_basic_equation
SolvedText ==
    IF req.op = "create_solution" THEN questions[req.question_id].content ELSE req.content

\* the answered request ran the solver, on a text that matches no pattern
SolverFoundNoPattern ==
    /\ req.op \in SolverCallers
    /\ Len(calls) > 0
    /\ calls[1] = "solve_basic_equation"
    /\ NoPatternMatches(SolvedText)

\* C6: when the text a caller gave to the solver matches no equation pattern,
\* /generate-solution and /questions/{id}/solution answer 200 with a solution
\* made by generate_solution after an analysis of the text (the latter stores
\* it), while /solve-equation answers the error status 400 with the detail
\* "Could not parse or solve the equation" and no solution.
C6_NoMatchIsAnErrorOnlyAtSolveEquation ==
    SolverFoundNoPattern =>
        IF req.op = "solve_equation_directly"
        THEN /\ resp.status = 400
             /\ resp.detail = <<"Could not parse or solve the equation">>
             /\ resp.body = None
        ELSE /\ resp.status = 200
             /\ Len(resp.body) = 1
             /\ Len(analysis) = 1
             /\ "analyze_question" \in {calls[i] : i \in 1..Len(calls)}
             /\ req.op = "create_solution" => resp.body[1] \in SolutionsOf(req.question_id)

\* /solve-equation was asked about "force on cells" and refused it
C6_Witness ==
    /\ req.op = "solve_equation_directly"
    /\ req.content = PlainTexts[2]
    /\ SolverFoundNoPattern
    /\ resp.status = 400

\* C6 as stated: none of the three callers answers a text that matches no
\* pattern with an error status.
C6_NoMatchNeverAnError == SolverFoundNoPattern => resp.status < 400

(***************************************************************************)
(* SpecFallback: generate_hints or generate_solution applied once to a    *)
(* text no equation pattern matches, so that both reach the models, with  *)
(* every outcome of the embedding model and of the generator.             *)
(***************************************************************************)
FallbackNext ==
    \/ \E s \in Services, num_hints \in 1..2 : CallGenerateHints(s, num_hints, MaxLevel)
    \/ /\ ncalls = 0
       /\ \E s \in Services, step_by_step \in BOOLEAN : CallGenerateSolution(s, step_by_step)

SpecFallback == HintsInit /\ [][FallbackNext]_vars

\* the generator raised in the answered call, for some prompt
GeneratorRaised == \E k \in 1..Len(modelLog.gen) : modelLog.gen[k].fail

\* the embedding model raised in the answered call
EmbeddingRaised == modelLog.emb # "none"

\* what the analysis of the answered call is after a failure of the embedding model
AnalysisFellBack ==
    /\ Len(analysis) = 1
    /\ EmbRaises([fail |-> modelLog.emb]) => analysis[1] = analyze_question_with_templates(text)
    /\ modelLog.emb = "keyword_encode" => analysis[1].keywords = extract_keywords(text)

\* C11: no failure of the embedding model or of the generator leaves
\* generate_hints or generate_solution: whenever a model call raised, the call
\* returned hints with content and level, one per level, or a solution with
\* content and steps; the hint of a level whose generator call raised is a
\* template hint, the solution whose generator call raised is the template
\* solution, and the analysis after an embedding failure is the keyword one.
C11_ModelFailuresFallBack ==
    /\ (HintsAnswered /\ (EmbeddingRaised \/ GeneratorRaised)) =>
          /\ resp.status = 200
          /\ AnalysisFellBack
          /\ Len(resp.body) = Cardinality(HintLevels(req.num_hints, req.max_level))
          /\ \A k \in 1..Len(resp.body) :
                /\ DOMAIN resp.body[k] = {"content", "level"}
                /\ (Len(modelLog.gen) >= k /\ modelLog.gen[k].fail) =>
                      \E pick \in 1..TemplateCount :
                          resp.body[k] = TemplateHint(analysis[1], k, pick)
    /\ (GenerateAnswered /\ (EmbeddingRaised \/ GeneratorRaised)) =>
          /\ resp.status = 200
          /\ AnalysisFellBack
          /\ Len(resp.body) = 1
          /\ DOMAIN resp.body[1] = {"content", "steps"}
          /\ GeneratorRaised =>
                resp.body[1] = generate_solution_with_templates(analysis[1], req.step_by_step)

\* generate_solution on "force cells?": the embedding model and the generator
\* both raised, and the answer is the physics template solution
C11_Witness ==
    /\ GenerateAnswered
    /\ input.words = <<4, 5>>
    /\ modelLog.emb = "encode"
    /\ GeneratorRaised
    /\ resp.body[1].content = Substitute(get_solution_template("physics"), <<AnalyzeWords[4], AnalyzeWords[5]>>)

(***************************************************************************)
(* Properties of the analysis result, under SpecAnalyze.                   *)
(***************************************************************************)
\* C12: every analysis result, on the embedding path and on the keyword path,
\* carries a category that is one of math, physics, chemistry, biology,
\* computer_science, other; the keyword path gives "other" to a text that
\* holds no term of the five subject lists.
C12_CategoryIsOneOfSixWithOther ==
    AnalyzeAnswered =>
        /\ resp.body[1].type \in
              {"math", "physics", "chemistry", "biology", "computer_science", "other"}
        /\ (OnKeywordPath /\ \A terms \in {MathTerms, PhysicsTerms, ChemistryTerms,
                                           BiologyTerms, ComputerScienceTerms} :
                                ~AnyTermIn(LowerText, terms)) =>
              resp.body[1].type = "other"

\* "apple" was analysed on the keyword path and its category is other
C12_Witness ==
    /\ AnalyzeAnswered
    /\ OnKeywordPath
    /\ input.words = <<6>>
    /\ resp.body[1].type = "other"

\* C12 as stated: the category is one of math, physics, chemistry, biology,
\* computer_science, general.
C12_CategoryIsOneOfSixWithGeneral ==
    AnalyzeAnswered =>
        resp.body[1].type \in
            {"math", "physics", "chemistry", "biology", "computer_science", "general"}

\* the analysis came from the embedding model
OnEmbeddingPath == AnalyzeAnswered /\ calls = <<"embedding">>

\* the words and the sentences of a long text
LongTextCounted ==
    input.family = "long" =>
        /\ resp.body[1].word_count = input.count
        /\ resp.body[1].sentence_count
              = IF input.every = 0 THEN 1 ELSE (input.count + input.every - 1) \div input.every

\* C13: on the embedding path the difficulty score is min(5, L + S + C) with
\* L = min(words / 25, 2), S = min(words per sentence / 10, 1.5) and
\* C = min(1.5, 1 + 0.3 * relevant concepts), and it lies between 1 and 5.
\* The sum is compared in units of 1 / (50 * sentences).
C13_EmbeddingDifficultyFormula ==
    OnEmbeddingPath =>
        LET r == resp.body[1]
            words == r.word_count
            m == IF r.sentence_count > 1 THEN r.sentence_count ELSE 1
            concepts == Len(r.relevant_concepts)
            L == IF 2 * words * m <= 100 * m THEN 2 * words * m ELSE 100 * m
            S == IF 5 * words <= 75 * m THEN 5 * words ELSE 75 * m
            C == IF 75 * m <= 50 * m + 15 * concepts * m THEN 75 * m
                 ELSE 50 * m + 15 * concepts * m
            total == IF 250 * m <= L + S + C THEN 250 * m ELSE L + S + C
            score == r.difficulty_score
        IN  /\ LongTextCounted
            /\ score.d > 0
            /\ score.n * 50 * m = total * score.d
            /\ score.d <= score.n
            /\ score.n <= 5 * score.d

\* 61 words in one sentence with two relevant concepts: every factor is at its
\* cap and the score is 5
C13_Witness ==
    /\ OnEmbeddingPath
    /\ input.family = "long"
    /\ input.count = 61
    /\ input.every = 0
    /\ Len(resp.body[1].relevant_concepts) = 2
    /\ resp.body[1].difficulty_score.n = 5 * resp.body[1].difficulty_score.d

\* the whitespace-separated words of the text of the call
InputWordCount == IF input.family = "long" THEN input.count ELSE Len(input.words)

\* C14: on the keyword path the difficulty score is min(words / 20, 3) for the
\* whitespace-separated words of the text: proportional to the word count up
\* to 60 words, and 3 for every longer text.
C14_KeywordDifficultyCappedAtThree ==
    OnKeywordPath =>
        LET score == resp.body[1].difficulty_score
            capped == IF InputWordCount <= 60 THEN InputWordCount ELSE 60
        IN  /\ resp.body[1].word_count = InputWordCount
            /\ score.d > 0
            /\ score.n * 20 = capped * score.d

\* a text of 80 words was analysed on the keyword path and its score is 3
C14_Witness ==
    /\ OnKeywordPath
    /\ input.family = "long"
    /\ input.count = 80
    /\ resp.body[1].difficulty_score.n = 3 * resp.body[1].difficulty_score.d

\* C14 as stated: on the keyword path the score is the word count over 20 for
\* every text.
C14_KeywordDifficultyProportional ==
    OnKeywordPath =>
        resp.body[1].difficulty_score.n * 20 = InputWordCount * resp.body[1].difficulty_score.d

RECURSIVE PlaceholdersFilled(_, _)
PlaceholdersFilled(template, keywords) ==
    IF template = <<>> THEN <<>>
    ELSE LET a == Head(template)
             named == {n \in 1..3 : a = Placeholder(n) /\ n <= Len(keywords)}
         IN  (IF named # {} THEN KeywordAtoms(keywords[CHOOSE n \in named : TRUE])
              ELSE <<a>>)
             \o PlaceholdersFilled(Tail(template), keywords)

OnTemplateHintPath == HintsAnswered /\ calls = <<"analyze_question", "templates">>

\* C16: on the template path the hint of level i is a template of level
\* min(i, 3) of the table of the question's category in which each placeholder
\* {keywordN} is replaced by the N-th keyword when there are at least N
\* keywords, nothing else being changed.
C16_TemplateHintFillsPlaceholders ==
    OnTemplateHintPath =>
        \A k \in 1..Len(resp.body) :
            \E t \in 1..TemplateCount :
                resp.body[k].content =
                    PlaceholdersFilled(
                        get_hint_templates(analysis[1].type)[IF k < 3 THEN k ELSE 3][t],
                        analysis[1].keywords)

(***************************************************************************)
(* SpecSeed: generate_hints applied repeatedly on the template path, the   *)
(* question changing between the runs.  picks[i] is what random.choice    *)
(* draws for level i from the state the random generator starts the run   *)
(* in; every run is kept together with the run before it.                 *)
(***************************************************************************)
SeedInputs == {i \in WordInputs : i.words \in {<<1>>, <<1, 3>>, <<4, 5>>, <<6>>}}

\* what a run of _generate_hints_with_templates received, drew and returned
TemplateRun(s, question_content, question_analysis, num_hints, max_level, picks, result) ==
    [svc |-> s, text |-> question_content,
     type |-> question_analysis.type, keywords |-> question_analysis.keywords,
     num_hints |-> num_hints, max_level |-> max_level,
     picks |-> picks, result |-> result]

\* ai_service.generate_hints(text, num_hints, max_level) by a service that
\* has no generator
SeededGenerateHints(s, num_hints, max_level) ==
    LET levels == HintLevels(num_hints, max_level)
    IN  /\ ncalls < MaxCalls
        /\ ~(use_transformers[s] /\ "generator" \in attrs[s])
        /\ \E gens \in HintGenChoices(s, levels) :
           \E a \in HintAnalyses(s, text, levels, gens) :
           \E picks \in HintPickChoices(s, levels, gens) :
           \E run \in {GenerateHintsFrom(a.analysis, Svc(s), num_hints, max_level,
                                         gens, picks)} :
              /\ req' = [op |-> "generate_hints", svc |-> s, step_by_step |-> TRUE,
                         num_hints |-> num_hints, max_level |-> max_level]
              /\ resp' = Ok(run.result)
              /\ calls' = run.calls
              /\ analysis' = run.analysis
              /\ modelLog' = [emb |-> a.fail, gen |-> <<>>,
                              run |-> TemplateRun(s, text, a.analysis, num_hints,
                                                  max_level, picks, run.result),
                              earlier |-> IF ncalls = 0 THEN <<>> ELSE <<modelLog.run>>]
        /\ ncalls' = ncalls + 1
        /\ UNCHANGED <<service, process, database, input, text, solverLog>>

\* the client turns to another question
AskAnother ==
    /\ ncalls > 0
    /\ ncalls < MaxCalls
    /\ input' \in SeedInputs \ {input}
    /\ text' = TextOf(input')
    /\ UNCHANGED <<service, process, database, req, resp, calls, analysis, modelLog, solverLog, ncalls>>

SeedInit ==
    /\ HintsInit
    /\ input \in SeedInputs

SeedNext ==
    \/ \E s \in Services, num_hints \in 1..2, max_level \in 1..2 :
          SeededGenerateHints(s, num_hints, max_level)
    \/ AskAnother

SpecSeed == SeedInit /\ [][SeedNext]_vars

\* the run before the answered one received the same category, keywords,
\* num_hints and max_level and drew the same templates
SameSeedAndArguments ==
    /\ modelLog.earlier # <<>>
    /\ modelLog.earlier[1].type = modelLog.run.type
    /\ modelLog.earlier[1].keywords = modelLog.run.keywords
    /\ modelLog.earlier[1].num_hints = modelLog.run.num_hints
    /\ modelLog.earlier[1].max_level = modelLog.run.max_level
    /\ modelLog.earlier[1].picks = modelLog.run.picks

\* C17: on the template path two runs of hint generation that start from the
\* same state of the random generator and receive the same category, keywords,
\* num_hints and max_level return the same hints, whatever else differs.
C17_SameSeedSameHints ==
    (OnTemplateHintPath /\ SameSeedAndArguments) =>
        /\ resp.body = modelLog.earlier[1].result
        /\ modelLog.run.result = resp.body

C17_Witness ==
    /\ OnTemplateHintPath
    /\ SameSeedAndArguments
    /\ modelLog.earlier[1].text # modelLog.run.text
    /\ modelLog.earlier[1].svc # modelLog.run.svc
    /\ Len(resp.body) = 2
    /\ modelLog.run.picks[1] # modelLog.run.picks[2]

(***************************************************************************)
(* SpecOverlap: POST /questions/{question_id}/solution requests served by  *)
(* the worker threads of the process at the same time.  A request is three *)
(* steps, one per access to the database: get_question, get_solution, and  *)
(* the generation with the insert of the row; steps of different requests  *)
(* interleave.  The database starts empty or with one question stored.     *)
(***************************************************************************)
Slots == 1..MaxCalls

Finished(r) == [i \in DOMAIN inflight \ {r} |-> inflight[i]]

\* create_solution up to the check that the question exists
BeginCreateSolution(r, question_id, step_by_step) ==
    /\ ncalls < MaxCalls
    /\ r = ncalls + 1
    /\ ncalls' = ncalls + 1
    /\ IF HasQuestion(question_id)
       THEN /\ inflight' = (r :> [question_id |-> question_id,
                                  step_by_step |-> step_by_step,
                                  content |-> questions[question_id].content,
                                  pc |-> "get_solution"]) @@ inflight
            /\ UNCHANGED <<req, resp, calls, analysis, modelLog>>
       ELSE /\ inflight' = inflight
            /\ req' = HttpRequest("create_solution", "questions", question_id, <<>>,
                                  step_by_step)
            /\ resp' = QuestionNotFound(question_id)
            /\ calls' = <<>>
            /\ analysis' = None
            /\ modelLog' = NoModelCalls
    /\ UNCHANGED <<service, boot, database, input, text, solverLog>>

\* create_solution: the check that no solution is stored yet
CheckExistingSolution(r) ==
    /\ r \in DOMAIN inflight
    /\ inflight[r].pc = "get_solution"
    /\ IF Len(get_solution(inflight[r].question_id)) > 0
       THEN /\ inflight' = Finished(r)
            /\ req' = HttpRequest("create_solution", "questions", inflight[r].question_id,
                                  <<>>, inflight[r].step_by_step)
            /\ resp' = HttpError(400, <<"Solution for question with ID ">>
                                          \o StrInt(inflight[r].question_id)
                                          \o <<" already exists">>)
            /\ calls' = <<>>
            /\ analysis' = None
            /\ modelLog' = NoModelCalls
       ELSE /\ inflight' = [inflight EXCEPT ![r].pc = "generate"]
            /\ UNCHANGED <<req, resp, calls, analysis, modelLog>>
    /\ UNCHANGED <<service, boot, database, input, text, solverLog, ncalls>>

\* create_solution: ai_service.generate_solution and QuestionService.create_solution
StoreSolution(r) ==
    /\ r \in DOMAIN inflight
    /\ inflight[r].pc = "generate"
    /\ \E g \in GenerateSolutionRuns(
                   "questions", inflight[r].content, inflight[r].step_by_step,
                   HttpGenChoices("questions"),
                   [gen \in HttpGenChoices("questions") |-> HttpEmbChoices("questions", gen)]) :
          LET solution == [id |-> NextId({row.id : row \in solutions}),
                           question_id |-> inflight[r].question_id,
                           content |-> g.run.result.content,
                           steps |-> g.run.result.steps]
          IN  /\ solutions' = solutions \cup {solution}
              /\ resp' = Ok(Some(solution))
              /\ calls' = g.run.calls
              /\ analysis' = g.run.analysis
              /\ modelLog' = g.modelLog
    /\ req' = HttpRequest("create_solution", "questions", inflight[r].question_id, <<>>,
                          inflight[r].step_by_step)
    /\ inflight' = Finished(r)
    /\ UNCHANGED <<service, boot, questions, hints, input, text, solverLog, ncalls>>

OverlapInit ==
    /\ ServicesInit
    /\ \/ questions = <<>>
       \/ \E content \in RequestTexts : questions = (1 :> [id |-> 1, content |-> content])
    /\ hints = {}
    /\ solutions = {}
    /\ input = [family |-> "plain", prefix |-> 1]
    /\ text = TextOf(input)
    /\ NoCallYet

OverlapNext ==
    \/ \E r \in Slots, question_id \in QuestionIds, step_by_step \in BOOLEAN :
          BeginCreateSolution(r, question_id, step_by_step)
    \/ \E r \in Slots : CheckExistingSolution(r)
    \/ \E r \in Slots : StoreSolution(r)

SpecOverlap == OverlapInit /\ [][OverlapNext]_vars

\* C18: after any interleaving of requests, overlapping POST
\* /questions/{id}/solution requests for one question included, every question
\* has at most one stored Solution, and a request answered with 400 found one.
C18_AtMostOneSolutionPerQuestion ==
    /\ \A question_id \in QuestionIds : Cardinality(SolutionsOf(question_id)) <= 1
    /\ (req.op = "create_solution" /\ resp.status = 400) =>
           SolutionsOf(req.question_id) # {}

(***************************************************************************)
(* SpecBoot: the start of the process and the requests it then serves.     *)
(* run.py calls initialize_app, which constructs an AIService and drops    *)
(* it; importing app.main imports the route modules questions and          *)
(* direct_routes in that order, and each constructs its own AIService.     *)
(* boot.constructed lists the constructions with the artifacts each one    *)
(* loaded.                                                                 *)
(***************************************************************************)
ConstructionSites == <<"setup", "questions", "direct">>

\* the load steps that may raise in a construction (0: none)
BootFailures == {0, 3}

Constructed(site) == \E k \in 1..Len(boot.constructed) : boot.constructed[k].site = site

Booted == Constructed("direct")

\* AIService() at one of its call sites
ConstructAIService(site, failAt) ==
    LET st == AIServiceInit(boot.available, boot.use_ai_models, failAt)
        loaded == SubSeq(Artifacts, 1, Cardinality(st.attrs))
    IN  /\ ~Booted
        /\ CASE site = "setup" -> boot.constructed = <<>>
             [] site = "questions" -> ~Constructed("questions")
             [] site = "direct" -> Constructed("questions")
        /\ (boot.available /\ boot.use_ai_models) \/ failAt = 0
        /\ boot' = [boot EXCEPT !.constructed = Append(@, [site |-> site, loaded |-> loaded])]
        /\ IF site \in Services
           THEN /\ use_transformers' = [use_transformers EXCEPT ![site] = st.use_transformers]
                /\ attrs' = [attrs EXCEPT ![site] = st.attrs]
           ELSE UNCHANGED service
        /\ UNCHANGED <<database, input, text, req, resp, calls, analysis, modelLog,
                       solverLog, ncalls, inflight>>

BootInit ==
    /\ use_transformers = [s \in Services |-> FALSE]
    /\ attrs = [s \in Services |-> {}]
    /\ EmptyDatabase
    /\ input = [family |-> "plain", prefix |-> 1]
    /\ text = TextOf(input)
    /\ req = NoRequest
    /\ resp = NoResponse
    /\ calls = <<>>
    /\ analysis = None
    /\ modelLog = NoModelCalls
    /\ solverLog = {}
    /\ ncalls = 0
    /\ inflight = <<>>
    /\ \E available \in BOOLEAN, use_ai_models \in BOOLEAN :
          boot = [available |-> available, use_ai_models |-> use_ai_models,
                  constructed |-> <<>>]

BootNext ==
    \/ \E k \in 1..Len(ConstructionSites), failAt \in BootFailures :
          ConstructAIService(ConstructionSites[k], failAt)
    \/ Booted /\ Next

SpecBoot == BootInit /\ [][BootNext]_vars

\* how many constructions of the process loaded the artifact
LoadsOf(artifact) ==
    Cardinality({k \in 1..Len(boot.constructed) :
                    \E i \in 1..Len(boot.constructed[k].loaded) :
                        boot.constructed[k].loaded[i] = artifact})

\* C19: every model artifact is loaded once per process, at its start; once the
\* process serves requests each artifact has been loaded at most once and the
\* AIService fields hold what the start left.
C19_ArtifactsLoadedOncePerProcess ==
    /\ \A i \in 1..Len(Artifacts) : LoadsOf(Artifacts[i]) <= 1
    /\ Booted => \A s \in Services :
                    \E k \in 1..Len(boot.constructed) :
                        /\ boot.constructed[k].site = s
                        /\ attrs[s] = {boot.constructed[k].loaded[i] :
                                          i \in 1..Len(boot.constructed[k].loaded)}

\* while the process serves requests no step loads an artifact or assigns an
\* AIService field
ArtifactsReadOnlyWhileServing == [][Booted => UNCHANGED <<service, boot>>]_vars

\* C20: when step_by_step is false generate_solution returns a solution whose
\* steps are None, for every text and on every path: equation solver, model
\* and template.
C20_NoStepsUnlessAsked ==
    (GenerateAnswered /\ ~req.step_by_step) => resp.body[1].steps = None

(***************************************************************************)
(* SpecLaunch: the start of the process from its entry points.  run.py     *)
(* imports app.core.setup, and with it app.core.config, before main()      *)
(* runs; main() writes the environment, calls initialize_app and hands     *)
(* app.main to uvicorn.  test.py writes the environment and lets pytest    *)
(* import app.main.  boot carries the environment, the settings once       *)
(* app.core.config was imported, and the constructions.                    *)
(***************************************************************************)
Launchers == {"run.py", "run.py --no-models", "test.py"}

\* what the environment may hold for a variable when the process starts
EnvValues == {"unset", "True", "False"}

\* os.environ.get(name, "False").lower() in ("true", "1", "t")
SettingOf(value) ==
    LET given == IF value = "unset" THEN "False" ELSE value
    IN  given \in {"True", "true", "TRUE", "1", "t", "T"}

\* os.environ.setdefault(name, value)
SetDefault(held, value) == IF held = "unset" THEN value ELSE held

LaunchInit ==
    /\ use_transformers = [s \in Services |-> FALSE]
    /\ attrs = [s \in Services |-> {}]
    /\ EmptyDatabase
    /\ input = [family |-> "plain", prefix |-> 1]
    /\ text = TextOf(input)
    /\ req = NoRequest
    /\ resp = NoResponse
    /\ calls = <<>>
    /\ analysis = None
    /\ modelLog = NoModelCalls
    /\ solverLog = {}
    /\ ncalls = 0
    /\ inflight = <<>>
    /\ \E launcher \in Launchers, available \in BOOLEAN,
          t \in EnvValues, m \in EnvValues :
          boot = [launcher |-> launcher,
                  pc |-> IF launcher = "test.py" THEN "environ" ELSE "import",
                  env |-> [USE_TRANSFORMERS |-> t, USE_AI_MODELS |-> m],
                  seen |-> None,
                  available |-> available,
                  use_transformers |-> FALSE,
                  use_ai_models |-> FALSE,
                  constructed |-> <<>>]

\* the import of app.core.config: settings = Settings()
ImportSettings ==
    /\ boot.pc = "import"
    /\ boot' = [boot EXCEPT !.seen = Some(boot.env),
                            !.use_transformers = SettingOf(boot.env.USE_TRANSFORMERS),
                            !.use_ai_models = SettingOf(boot.env.USE_AI_MODELS),
                            !.pc = IF boot.launcher = "test.py" THEN "serve" ELSE "main"]
    /\ UNCHANGED <<service, database, input, text, req, resp, calls, analysis, modelLog,
                   solverLog, ncalls, inflight>>

\* the writes to os.environ: run.py main() and test.py
WriteEnvironment ==
    /\ boot.pc \in {"main", "environ"}
    /\ boot' = CASE boot.launcher = "test.py" ->
                      [boot EXCEPT !.env.USE_TRANSFORMERS = "False", !.pc = "import"]
                 [] boot.launcher = "run.py --no-models" ->
                      [boot EXCEPT !.env.USE_TRANSFORMERS = "False",
                                   !.env.USE_AI_MODELS = "False", !.pc = "serve"]
                 [] boot.launcher = "run.py" ->
                      [boot EXCEPT !.env.USE_TRANSFORMERS = SetDefault(@, "True"),
                                   !.env.USE_AI_MODELS = SetDefault(@, "True"),
                                   !.pc = "serve"]
    /\ UNCHANGED <<service, database, input, text, req, resp, calls, analysis, modelLog,
                   solverLog, ncalls, inflight>>

\* the AIService() calls in the order the entry point reaches them
LaunchConstruct(site, failAt) ==
    /\ boot.pc = "serve"
    /\ IF boot.launcher = "test.py" THEN site # "setup"
       ELSE site = "setup" \/ Constructed("setup")
    /\ ConstructAIService(site, failAt)

LaunchNext ==
    \/ ImportSettings
    \/ WriteEnvironment
    \/ \E k \in 1..Len(ConstructionSites), failAt \in BootFailures :
          LaunchConstruct(ConstructionSites[k], failAt)

SpecLaunch == LaunchInit /\ [][LaunchNext]_vars

\* a construction of the process loaded a model
SomeModelLoaded == \E k \in 1..Len(boot.constructed) : boot.constructed[k].loaded # <<>>

\* C21: started with --no-models, the process has the transformer models
\* disabled: the environment is written before the settings are read, the
\* settings have USE_AI_MODELS false and every AIService has use_transformers
\* false, whatever the environment held at the start.
C21_NoModelsFlagDisablesModels ==
    boot.launcher = "run.py --no-models" =>
        /\ Len(boot.seen) > 0 => /\ boot.seen[1].USE_AI_MODELS = "False"
                                 /\ ~boot.use_ai_models
        /\ \A s \in Services : ~use_transformers[s]

\* C22: with USE_TRANSFORMERS set to False in the environment when the
\* application is imported, every AIService has use_transformers false and
\* loads no model, whatever the other settings are.
C22_UseTransformersFalseMeansTemplates ==
    (Len(boot.seen) > 0 /\ boot.seen[1].USE_TRANSFORMERS = "False") =>
        /\ \A s \in Services : ~use_transformers[s]
        /\ ~SomeModelLoaded

\* the coefficient of x in the equation the text of an additive input holds:
\* the prefix "What is 2" puts a 2 in front of x
CoefficientOfX(i) == IF Prefixes[i.prefix] = Prefixes[5] THEN 2 ELSE 1

\* C23: whenever the solver returns x = v for a text that contains one linear
\* equation in x with non-negative integer coefficients, v satisfies that
\* equation; where it cannot solve the equation correctly it returns None.
C23_ReturnedValueSatisfiesEquation ==
    (/\ SolverAnswered
     /\ input.family = "equation" /\ input.form \in {"add", "sub"}
     /\ Len(resp.body) = 1) =>
        \E v \in {b - a : a \in NumValues, b \in NumValues}
                   \cup {b + a : a \in NumValues, b \in NumValues} :
            /\ StatesX(resp.body[1], StrInt(v))
            /\ CoefficientOfX(input) * v + (IF input.form = "add" THEN input.a ELSE 0 - input.a)
                  = input.b

\* the categories in the order of the if / elif chain, with their term lists
CategoryOrder == <<"math", "physics", "chemistry", "biology", "computer_science">>

TermsOf(category) ==
    CASE category = "math" -> MathTerms
      [] category = "physics" -> PhysicsTerms
      [] category = "chemistry" -> ChemistryTerms
      [] category = "biology" -> BiologyTerms
      [] category = "computer_science" -> ComputerScienceTerms

\* the positions in CategoryOrder of the categories with a term in the text
CategoriesHit ==
    {k \in 1..Len(CategoryOrder) :
        \E term \in TermsOf(CategoryOrder[k]) : Contains(LowerText, term)}

\* C24: on the keyword path the category is the first, in the order math,
\* physics, chemistry, biology, computer_science, whose term list has a term
\* occurring in the lower-cased text, and other when none has; a text with
\* terms of several categories gets the earliest of them.
C24_FirstCategoryInOrderWins ==
    OnKeywordPath =>
        resp.body[1].type =
            IF CategoriesHit = {} THEN "other"
            ELSE CategoryOrder[CHOOSE k \in CategoriesHit : \A j \in CategoriesHit : k <= j]

\* "cells? molecule", a biology term before a chemistry term, was classified
\* as chemistry
C24_Witness ==
    /\ OnKeywordPath
    /\ input.words = <<5, 7>>
    /\ CategoriesHit = {3, 4}
    /\ resp.body[1].type = "chemistry"

(***************************************************************************)
(* SpecOrphans: POST /questions/{question_id}/hints and                    *)
(* POST /questions/{question_id}/solution requests in progress while       *)
(* DELETE /questions/{question_id} requests are served.  A create_hints    *)
(* request is two steps, get_question and the generation with the inserts. *)
(* SQLite is opened without PRAGMA foreign_keys, so an insert is not       *)
(* checked against the question table.                                     *)
(***************************************************************************)
\* create_hints up to the check that the question exists
BeginCreateHints(r, question_id, num_hints, max_level) ==
    /\ ncalls < MaxCalls
    /\ r = ncalls + 1
    /\ ncalls' = ncalls + 1
    /\ IF HasQuestion(question_id)
       THEN /\ inflight' = (r :> [question_id |-> question_id,
                                  num_hints |-> num_hints, max_level |-> max_level,
                                  content |-> questions[question_id].content,
                                  pc |-> "generate_hints"]) @@ inflight
            /\ UNCHANGED <<req, resp, calls, analysis, modelLog>>
       ELSE /\ inflight' = inflight
            /\ req' = HttpRequest("create_hints", "questions", question_id, <<>>, TRUE)
            /\ resp' = QuestionNotFound(question_id)
            /\ calls' = <<>>
            /\ analysis' = None
            /\ modelLog' = NoModelCalls
    /\ UNCHANGED <<service, boot, database, input, text, solverLog>>

RECURSIVE HintRows(_, _, _, _)
\* the rows QuestionService.create_hint inserts for the generated hints, from
\* the k-th on
HintRows(question_id, hint_data, k, ids) ==
    IF k > Len(hint_data) THEN <<>>
    ELSE LET row == [id |-> NextId(ids), question_id |-> question_id,
                     content |-> hint_data[k].content, level |-> hint_data[k].level]
         IN  <<row>> \o HintRows(question_id, hint_data, k + 1, ids \cup {row.id})

\* create_hints: ai_service.generate_hints and one QuestionService.create_hint
\* per hint
StoreHints(r) ==
    /\ r \in DOMAIN inflight
    /\ inflight[r].pc = "generate_hints"
    /\ LET levels == HintLevels(inflight[r].num_hints, inflight[r].max_level)
       IN  \E gens \in HintGenChoices("questions", levels) :
           \E a \in HintAnalyses("questions", inflight[r].content, levels, gens) :
           \E picks \in HintPickChoices("questions", levels, gens) :
           \E run \in {GenerateHintsFrom(a.analysis, Svc("questions"), inflight[r].num_hints,
                                         inflight[r].max_level, gens, picks)} :
           \E rows \in {HintRows(inflight[r].question_id, run.result, 1,
                                 {h.id : h \in hints})} :
              /\ hints' = hints \cup {rows[k] : k \in 1..Len(rows)}
              /\ resp' = Ok(rows)
              /\ calls' = run.calls
              /\ analysis' = run.analysis
              /\ modelLog' = [emb |-> a.fail, gen |-> <<>>]
    /\ req' = HttpRequest("create_hints", "questions", inflight[r].question_id, <<>>, TRUE)
    /\ inflight' = Finished(r)
    /\ UNCHANGED <<service, boot, questions, solutions, input, text, solverLog, ncalls>>

OrphansNext ==
    \/ \E r \in Slots, question_id \in QuestionIds :
          BeginCreateHints(r, question_id, 1, 1)
    \/ \E r \in Slots : StoreHints(r)
    \/ \E r \in Slots, question_id \in QuestionIds :
          BeginCreateSolution(r, question_id, TRUE)
    \/ \E r \in Slots : CheckExistingSolution(r)
    \/ \E r \in Slots : StoreSolution(r)
    \/ \E question_id \in QuestionIds : DeleteQuestion(question_id)

SpecOrphans == OverlapInit /\ [][OrphansNext]_vars

\* C25: after any interleaving of create-hints, create-solution and
\* delete-question requests every stored Hint and every stored Solution refers
\* to a Question that still exists.
C25_HintsAndSolutionsHaveTheirQuestion ==
    /\ \A h \in hints : HasQuestion(h.question_id)
    /\ \A row \in solutions : HasQuestion(row.question_id)

\* the text holds a placeholder {keywordN} that was not replaced
HasPlaceholder(txt) == \E i \in 1..Len(txt), n \in 1..3 : txt[i] = Placeholder(n)

\* the answered call returned what _generate_solution_with_templates built
OnTemplateSolutionPath ==
    GenerateAnswered /\ Len(calls) > 0 /\ calls[Len(calls)] = "templates"

\* C26: text produced on the template path (hints, solution content and
\* solution steps) never contains an unreplaced placeholder {keywordN},
\* whatever the number of extracted keywords.
C26_NoPlaceholderLeftInTemplateText ==
    /\ OnTemplateHintPath =>
          \A k \in 1..Len(resp.body) : ~HasPlaceholder(resp.body[k].content)
    /\ OnTemplateSolutionPath =>
          /\ ~HasPlaceholder(resp.body[1].content)
          /\ \A k \in 1..Len(resp.body[1].steps) : ~HasPlaceholder(resp.body[1].steps[k])

(***************************************************************************)
(* SpecApi: all the handlers of the questions router and of the direct     *)
(* router, one request after the other.  Requests may name an id no        *)
(* question has.                                                           *)
(***************************************************************************)
RequestIds == 1..(MaxQuestions + 1)

\* QuestionAnalysisRequest.type and .difficulty: None or a member of the enum
RequestTypes == {None, Some("general_knowledge")}

RequestDifficulties == {None, Some("expert")}

\* what the embedding model may answer to POST /questions/analyze
AnalyzeEmbChoices(s) ==
    IF use_transformers[s]
    THEN {e \in EmbOutcomes :
             /\ e.fail \in {"none", "encode"}
             /\ e.type \in {"other", "physics"}
             /\ e.nconcepts = 0
             /\ ~e.reverse
             /\ EmbRaises(e) => e.type = "other"}
    ELSE {NoEmb}

\* the body of POST /questions/analyze for the result of analyze_question
AnalysisResponse(analysis_result, type, difficulty) ==
    LET typed == IF Len(type) > 0 THEN [analysis_result EXCEPT !.type = type[1]]
                 ELSE analysis_result
    IN  IF Len(difficulty) > 0 THEN ("difficulty" :> difficulty[1]) @@ typed ELSE typed

\* POST /questions/analyze
AnalyzeQuestionRoute(content, type, difficulty) ==
    /\ ncalls < MaxCalls
    /\ \E emb \in AnalyzeEmbChoices("questions") :
         LET analysis_result == analyze_question(use_transformers["questions"], content, emb)
         IN  /\ resp' = Ok(Some(AnalysisResponse(analysis_result, type, difficulty)))
             /\ analysis' = Some(analysis_result)
             /\ calls' = AnalyzePath(use_transformers["questions"], emb)
             /\ modelLog' = [emb |-> emb.fail, gen |-> <<>>]
    /\ req' = [op |-> "analyze_route", svc |-> "questions", step_by_step |-> TRUE,
               question_id |-> 0, content |-> content, type |-> type,
               difficulty |-> difficulty]
    /\ ncalls' = ncalls + 1
    /\ UNCHANGED <<service, process, database, input, text, solverLog>>

\* GET /questions/{question_id}
GetQuestion(question_id) ==
    /\ ncalls < MaxCalls
    /\ resp' = IF HasQuestion(question_id) THEN Ok(Some(questions[question_id]))
               ELSE QuestionNotFound(question_id)
    /\ req' = HttpRequest("get_question", "none", question_id, <<>>, TRUE)
    /\ calls' = <<>>
    /\ analysis' = None
    /\ modelLog' = NoModelCalls
    /\ ncalls' = ncalls + 1
    /\ UNCHANGED <<service, process, database, input, text, solverLog>>

\* PUT /questions/{question_id} with a new content
UpdateQuestion(question_id, content) ==
    /\ ncalls < MaxCalls
    /\ IF HasQuestion(question_id)
       THEN /\ questions' = [questions EXCEPT ![question_id].content = content]
            /\ resp' = Ok(Some([id |-> question_id, content |-> content]))
       ELSE /\ questions' = questions
            /\ resp' = QuestionNotFound(question_id)
    /\ req' = HttpRequest("update_question", "none", question_id, content, TRUE)
    /\ calls' = <<>>
    /\ analysis' = None
    /\ modelLog' = NoModelCalls
    /\ ncalls' = ncalls + 1
    /\ UNCHANGED <<service, process, hints, solutions, input, text, solverLog>>

\* the hints generated for a content and the rows create_hint stores for them
GeneratedHintRows(question_id, content, num_hints, max_level) ==
    LET levels == HintLevels(num_hints, max_level)
    IN  UNION {
          UNION {
            {LET run == GenerateHintsFrom(a.analysis, Svc("questions"), num_hints,
                                          max_level, gens, picks)
                 rows == HintRows(question_id, run.result, 1, {h.id : h \in hints})
             IN  [resp |-> Ok(rows), calls |-> run.calls, analysis |-> run.analysis,
                  modelLog |-> [emb |-> a.fail, gen |-> <<>>],
                  stored |-> {rows[k] : k \in 1..Len(rows)}] :
             picks \in HintPickChoices("questions", levels, gens)} :
            a \in HintAnalyses("questions", content, levels, gens)} :
          gens \in HintGenChoices("questions", levels)}

\* a create_hints that generates the hints before it looks for the question
CreateHintsGeneratingFirst(question_id, num_hints, max_level) ==
    IF ~HasQuestion(question_id)
    THEN {[out EXCEPT !.resp = QuestionNotFound(question_id), !.stored = {}] :
            out \in GeneratedHintRows(question_id, <<>>, num_hints, max_level)}
    ELSE GeneratedHintRows(question_id, questions[question_id].content, num_hints, max_level)

\* what POST /questions/{question_id}/hints may answer and store
CreateHintsOutcomes(question_id, num_hints, max_level) ==
    IF ~HasQuestion(question_id)
    THEN {Refused(QuestionNotFound(question_id)) @@ [stored |-> {}]}
    ELSE GeneratedHintRows(question_id, questions[question_id].content, num_hints, max_level)

\* POST /questions/{question_id}/hints
CreateHints(question_id, num_hints, max_level) ==
    /\ ncalls < MaxCalls
    /\ \E out \in CreateHintsOutcomes(question_id, num_hints, max_level) :
          /\ hints' = hints \cup out.stored
          /\ resp' = out.resp
          /\ calls' = out.calls
          /\ analysis' = out.analysis
          /\ modelLog' = out.modelLog
    /\ req' = HttpRequest("create_hints", "questions", question_id, <<>>, TRUE)
    /\ ncalls' = ncalls + 1
    /\ UNCHANGED <<service, process, questions, solutions, input, text, solverLog>>

RECURSIVE ByLevel(_)
\* the rows ordered by level (and by id within a level)
ByLevel(rows) ==
    IF rows = {} THEN <<>>
    ELSE LET first == CHOOSE h \in rows :
                          \A o \in rows : h.level < o.level
                                          \/ (h.level = o.level /\ h.id <= o.id)
         IN  <<first>> \o ByLevel(rows \ {first})

\* GET /questions/{question_id}/hints
GetHints(question_id) ==
    /\ ncalls < MaxCalls
    /\ resp' = IF HasQuestion(question_id)
               THEN Ok(ByLevel({h \in hints : h.question_id = question_id}))
               ELSE QuestionNotFound(question_id)
    /\ req' = HttpRequest("get_hints", "none", question_id, <<>>, TRUE)
    /\ calls' = <<>>
    /\ analysis' = None
    /\ modelLog' = NoModelCalls
    /\ ncalls' = ncalls + 1
    /\ UNCHANGED <<service, process, database, input, text, solverLog>>

ApiNext ==
    \/ \E content \in RequestTexts : CreateQuestion(content)
    \/ \E question_id \in RequestIds : GetQuestion(question_id)
    \/ \E question_id \in RequestIds, content \in RequestTexts :
          UpdateQuestion(question_id, content)
    \/ \E question_id \in RequestIds : DeleteQuestion(question_id)
    \/ \E content \in RequestTexts, type \in RequestTypes, difficulty \in RequestDifficulties :
          AnalyzeQuestionRoute(content, type, difficulty)
    \/ \E question_id \in RequestIds : CreateHints(question_id, 2, 3)
    \/ \E question_id \in RequestIds : GetHints(question_id)
    \/ \E question_id \in RequestIds, step_by_step \in BOOLEAN :
          CreateSolution(question_id, step_by_step)
    \/ \E question_id \in RequestIds : GetSolution(question_id)
    \/ \E content \in RequestTexts, step_by_step \in BOOLEAN :
          GenerateSolutionDirectly(content, step_by_step)
    \/ \E content \in RequestTexts : SolveEquationDirectly(content)

SpecApi == Init /\ [][ApiNext]_vars

AnalyzeRouteAnswered == req.op = "analyze_route"

\* C28: POST /questions/analyze with a type and/or a difficulty returns an
\* analysis whose detected type and detected difficulty are replaced by the
\* given values; with neither given the response is exactly the result of
\* analyze_question.
C28_GivenTypeAndDifficultyReplaceDetected ==
    AnalyzeRouteAnswered =>
        /\ resp.status = 200
        /\ Len(req.type) > 0 => resp.body[1].type = req.type[1]
        /\ Len(req.difficulty) > 0 =>
              /\ "difficulty" \in DOMAIN resp.body[1]
              /\ resp.body[1].difficulty = req.difficulty[1]
              /\ "difficulty_score" \in DOMAIN resp.body[1] =>
                     resp.body[1].difficulty_score # analysis[1].difficulty_score
        /\ (Len(req.type) = 0 /\ Len(req.difficulty) = 0) => resp.body = analysis

\* the handlers that look a question up by the id in the path
QuestionOps ==
    {"get_question", "update_question", "delete_question", "get_hints", "create_hints",
     "get_solution", "create_solution"}

\* C29: a GET, PUT or DELETE on /questions/{id}, and a GET or POST on its hints
\* or its solution, for an id no stored question has, answers 404, generates
\* nothing and leaves the stored questions, hints and solutions unchanged.
C29_MissingQuestionAnswers404 ==
    [][\A question_id \in RequestIds :
          (/\ ncalls' = ncalls + 1
           /\ req'.op \in QuestionOps
           /\ req'.question_id = question_id
           /\ ~HasQuestion(question_id)) =>
              /\ resp'.status = 404
              /\ resp'.detail = <<"Question with ID ">> \o StrInt(question_id) \o <<" not found">>
              /\ calls' = <<>>
              /\ UNCHANGED database]_vars

\* with question 1 stored, POST /questions/2/hints was answered 404 and stored
\* no hint
C29_Witness ==
    /\ req.op = "create_hints"
    /\ req.question_id = 2
    /\ HasQuestion(1) /\ ~HasQuestion(2)
    /\ resp.status = 404
    /\ calls = <<>>
    /\ hints = {}

(***************************************************************************)
(* The life of the AIServices of a process: each construction may fail at  *)
(* any of its load steps, and the requests follow.                         *)
(***************************************************************************)
LoadFailures == 0..Len(Artifacts)

\* the requests that read use_transformers, and the one that stores a question
ServeNext ==
    \/ \E content \in RequestTexts : CreateQuestion(content)
    \/ \E content \in RequestTexts : AnalyzeQuestionRoute(content, None, None)
    \/ \E question_id \in RequestIds : CreateHints(question_id, 1, 3)
    \/ \E content \in RequestTexts, step_by_step \in BOOLEAN :
          GenerateSolutionDirectly(content, step_by_step)

LifecycleNext ==
    \/ ConstructAIService("setup", 0)
    \/ \E s \in Services, failAt \in LoadFailures : ConstructAIService(s, failAt)
    \/ Booted /\ ServeNext

SpecLifecycle == BootInit /\ [][LifecycleNext]_vars

\* the artifacts the construction at a site of the process loaded
LoadedAt(site) ==
    UNION {{boot.constructed[k].loaded[i] : i \in 1..Len(boot.constructed[k].loaded)} :
             k \in {j \in 1..Len(boot.constructed) : boot.constructed[j].site = site}}

AllArtifacts == {Artifacts[i] : i \in 1..Len(Artifacts)}

\* C27: use_transformers of an AIService is true only if the embedding model,
\* the generator, the category embeddings and the knowledge base were all
\* loaded; a construction that did not load all four leaves it false; and no
\* step after the constructions changes it.
C27_UseTransformersOnlyWithAllArtifacts ==
    /\ [](\A s \in Services :
             /\ use_transformers[s] => (attrs[s] = AllArtifacts /\ LoadedAt(s) = AllArtifacts)
             /\ (Constructed(s) /\ LoadedAt(s) # AllArtifacts) => ~use_transformers[s])
    /\ [][Booted => UNCHANGED use_transformers]_vars

\* the AIService of the question routes failed at its third load step, the one
\* of the direct routes loaded everything, and hints were then generated
C27_Witness ==
    /\ Booted
    /\ attrs["questions"] = {"embedding_model", "generator"}
    /\ ~use_transformers["questions"]
    /\ use_transformers["direct"]
    /\ req.op = "create_hints"
    /\ resp.status = 200
    /\ calls = <<"analyze_question", "templates">>

(***************************************************************************)
(* SpecZero: the solver, generate_solution and /solve-equation on one      *)
(* equation in x whose coefficient is written 0, "0x = b" or "0 * x = b",  *)
(* by the side of "3x = 12".                                               *)
(***************************************************************************)
ZeroInputs ==
    [family : {"equation"}, form : {"mul", "mulstar"}, a : {0}, b : {0, MaxNum, 12},
     compact : BOOLEAN, prefix : {1}]

ZeroInit ==
    /\ ServicesInit
    /\ EmptyDatabase
    /\ input \in ZeroInputs \cup
                 {i \in EquationInputs : i.form = "mul" /\ i.a = 3 /\ i.b = 12 /\ i.prefix = 1}
    /\ text = TextOf(input)
    /\ NoCallYet

ZeroNext ==
    \/ \E s \in Services : CallSolve(s)
    \/ \E s \in Services, step_by_step \in BOOLEAN : CallGenerateSolution(s, step_by_step)
    \/ SolveEquationDirectly(text)

SpecZero == ZeroInit /\ [][ZeroNext]_vars

\* C30: on a text "0x = b" or "0*x = b" the solver returns None and raises
\* nothing; generate_solution goes on to analyse the text and to generate the
\* solution with the model or the templates; /solve-equation answers 400 "Could
\* not parse or solve the equation"; no run of the solver returns a solution.
C30_ZeroCoefficientIsNotSolved ==
    (input \in ZeroInputs /\ ncalls > 0) =>
        /\ solve_basic_equation(text) = None
        /\ \A e \in solverLog : e.result = None
        /\ req.op = "solve_basic_equation" => resp = Ok(None)
        /\ req.op = "generate_solution" =>
              /\ resp.status = 200
              /\ Len(calls) >= 3
              /\ calls[1] = "solve_basic_equation"
              /\ calls[2] = "analyze_question"
              /\ calls[Len(calls)] \in {"generator", "templates"}
              /\ Len(analysis) = 1
        /\ req.op = "solve_equation_directly" =>
              /\ resp.status = 400
              /\ resp.detail = <<"Could not parse or solve the equation">>
              /\ resp.body = None

\* "0*x=012" went through the solver, through generate_solution and then to
\* /solve-equation, which refused it
C30_Witness ==
    /\ input \in ZeroInputs
    /\ input.form = "mulstar" /\ input.compact /\ input.b = 12
    /\ re_search(multiplication_pattern, text, FALSE).ok
    /\ solverLog # {}
    /\ req.op = "solve_equation_directly"
    /\ resp.status = 400

====
